---- MODULE Spec2Model ----
(***************************************************************************)
(* Model of the position / cost-basis engine of stock-tracker              *)
(* (src/src/types/index.ts): calculatePositions, calculateTotalProfitLoss  *)
(* and analyzeTradeHistory, run over a bounded trade ledger, with the      *)
(* date collapse of the chart (TradeAnalysisChart.tsx); of the trade       *)
(* ledger with its form, import and local storage (useTrades, TradeForm,   *)
(* TradeList, App); and of the quote map (useStockQuote).                  *)
(*                                                                         *)
(* Specifications: Spec (the engine calls on a ledger snapshot),           *)
(* AnalysisSpec (of these, analyzeTradeHistory and the chart),             *)
(* LedgerSpec / LedgerLive (the ledger), QuoteSpec (the quote map).        *)
(*                                                                         *)
(* Numbers.  The source computes with JavaScript numbers.  Quantities,     *)
(* prices and commissions of the model are integers; costs, averages and   *)
(* percentages are exact rationals <<n, d>> (d > 0, lowest terms), so      *)
(* every division of the source is modelled by an exact division.  The     *)
(* rounding of IEEE-754 doubles is not modelled.                           *)
(*                                                                         *)
(* null / undefined are modelled by the empty tuple, so that an optional   *)
(* value is either <<>> or a rational <<n, d>> (a commission: <<c>>).      *)
(***************************************************************************)
EXTENDS Integers, Sequences, FiniteSets, TLC

VARIABLES
    trades,          \* the Trade[] handed to the functions (a ledger snapshot)
    pc,              \* position of the computation
    sortedTrades,    \* the sorted copy made by the function that is running
    idx,             \* 1-based index of the next trade of the for...of loop
    positionMap,     \* calculatePositions: Map in insertion order, as a sequence
    currentPrices,   \* calculatePositions: the price map argument
    positions,       \* calculatePositions: the returned Position[]
    totals,          \* calculateTotalProfitLoss: the returned record
    stockInventory,  \* analyzeTradeHistory: Map code -> {quantity, totalCost}
    currentCumulativeCost, \* analyzeTradeHistory: running scalar
    points,          \* analyzeTradeHistory: the AnalysisPoint[] built so far
    processedData,   \* TradeAnalysisChart: the collapsed series
    storage,         \* localStorage['stock-tracker-trades'], Null when absent
    effectPending,   \* useTrades: a render with a new trades array awaits its effect
    generated,       \* how many ids generateId has handed out
    isModalOpen,     \* App: the trade form is shown
    editingTrade,    \* App: the trade being edited, or Null
    quotes,          \* useStockQuote: Map code -> StockQuote
    inflight,        \* useStockQuote: the fetchQuotes calls awaiting their response
    issued,          \* how many fetchQuotes calls have been issued
    settled,         \* useStockQuote: the fetch promises settled, fulfilled or rejected
    loading,         \* useStockQuote: loading
    error,           \* useStockQuote: error, Null or the message
    conversations,   \* AIAssistant: the conversations, the newest first
    activeId,        \* AIAssistant: id of the conversation shown, or NoChat
    isTyping,        \* AIAssistant: isTyping
    sends,           \* AIAssistant: the handleSend calls awaiting chatWithAI
    sent,            \* how many handleSend calls have produced a user message
    chatsMade,       \* how many conversations handleNewChat has made
    chatStorage,     \* localStorage: ai_conversations, ai_active_conversation_id
    chatEffectPending, \* AIAssistant: the persistence effect of a render is due
    apiKey,          \* localStorage ai_settings: the API key
    query,           \* StockSearch: query
    value,           \* StockSearch: the prop value, the code held by the form
    results,         \* StockSearch: results
    resultsFrom,     \* history: the request whose response set results, 0 if none
    searchLoading,   \* StockSearch: loading
    showDropdown,    \* StockSearch: showDropdown
    timer,           \* StockSearch: the 300 ms timer of the effect is running
    requests,        \* StockSearch: the searchStocks calls awaiting their fetch
    controller,      \* StockSearch: abortControllerRef.current, a request number or 0
    searched         \* how many searchStocks calls have issued a request

engineVars == <<pc, sortedTrades, idx, positionMap, currentPrices, positions,
                totals, stockInventory, currentCumulativeCost, points, processedData>>
ledgerVars == <<storage, effectPending, generated, isModalOpen, editingTrade>>
quoteVars == <<quotes, inflight, issued, settled, loading, error>>

chatVars == <<conversations, activeId, isTyping, sends, sent, chatsMade,
              chatStorage, chatEffectPending, apiKey>>
searchVars == <<query, value, results, resultsFrom, searchLoading, showDropdown,
                timer, requests, controller, searched>>

\* the state of the hooks and components, which the engine calls do not touch
hookVars == <<ledgerVars, quoteVars, chatVars, searchVars>>

vars == <<trades, engineVars, ledgerVars, quoteVars, chatVars, searchVars>>

----------------------------------------------------------------------------
(* Bounds of the model *)

MaxTrades == 3

Codes == {"A", "B"}
TicksPerDay == 2
Dates == {<<1, 0>>, <<2, 0>>}
QuotePrices == {10}

Null == <<>>
Undefined == <<>>
Commissions == {Undefined, <<1>>}

----------------------------------------------------------------------------
(* JavaScript number arithmetic, as exact rationals *)

RECURSIVE GCD(_, _)
GCD(a, b) == IF b = 0 THEN a ELSE GCD(b, a % b)

Abs(n) == IF n < 0 THEN -n ELSE n

Rat(n, d) ==
    LET s == IF d < 0 THEN -1 ELSE 1
        g == GCD(Abs(n), Abs(d))
    IN  <<(s * n) \div g, (s * d) \div g>>

Num(n) == <<n, 1>>
Zero == Num(0)

Add(x, y) == Rat(x[1] * y[2] + y[1] * x[2], x[2] * y[2])
Sub(x, y) == Rat(x[1] * y[2] - y[1] * x[2], x[2] * y[2])
Mul(x, y) == Rat(x[1] * y[1], x[2] * y[2])
Div(x, y) == Rat(x[1] * y[2], x[2] * y[1])
Less(x, y) == x[1] * y[2] < y[1] * x[2]
Min(a, b) == IF a < b THEN a ELSE b

----------------------------------------------------------------------------
(* Trades *)

Trade(code, type, price, quantity, date, commission) ==
    [stockCode |-> code, type |-> type, price |-> price,
     quantity |-> quantity, date |-> date, commission |-> commission]

\* <<price, quantity, commission>> of the trades of instrument "A": every pair
\* of values of two of the three fields occurs among the buys; a sell is the
\* small or the large one.
BuyShapes == { <<1, 1, Undefined>>, <<1, 2, <<1>>>>, <<2, 1, <<1>>>>, <<2, 2, Undefined>> }
SellShapes == { <<1, 1, Undefined>>, <<2, 2, <<1>>>> }

\* Instrument "B", which is there for the separation of the per-code
\* accumulators, trades one unit at price 1 without commission on the first date.
TradeUniverse ==
    { Trade("A", "buy", s[1], s[2], d, s[3]) : s \in BuyShapes, d \in Dates }
    \cup { Trade("A", "sell", s[1], s[2], d, s[3]) : s \in SellShapes, d \in Dates }
    \cup { Trade("B", t, 1, 1, <<1, 0>>, Undefined) : t \in {"buy", "sell"} }

\* The ledgers of the worked examples: buy 100 @ 10 (commission 5) then
\* sell 50 @ 12 (commission 2), and the same with another sell price and no
\* sell commission; and two instruments bought for 800 and 500.
ExampleLedgers ==
    { << Trade("A", "buy", 10, 100, <<1, 0>>, <<5>>),
         Trade("A", "sell", 12, 50, <<2, 0>>, <<2>>) >>,
      << Trade("A", "buy", 10, 100, <<1, 0>>, <<5>>),
         Trade("A", "sell", 7, 50, <<2, 0>>, Undefined) >>,
      << Trade("A", "buy", 8, 100, <<1, 0>>, Undefined),
         Trade("B", "buy", 5, 100, <<1, 0>>, Undefined) >> }

\* Ledgers of three trades of one instrument at three different times, two of
\* them on the same day, given in every order.
TimedDates == {<<1, 0>>, <<1, 1>>, <<2, 0>>}
TimedTrades ==
    { Trade("A", "buy", 1, 2, d, <<1>>) : d \in TimedDates }
    \cup { Trade("A", "sell", 1, 1, d, Undefined) : d \in TimedDates }
TimedLedgers ==
    { ts \in [1..Cardinality(TimedDates) -> TimedTrades] :
        \A i, j \in DOMAIN ts : ts[i].date = ts[j].date => i = j }

\* mutant: the commission is left out of the cost
CommissionDropped(trade) == 0

\* trade.commission || 0
CommissionOrZero(trade) ==
    IF trade.commission = Undefined THEN 0 ELSE trade.commission[1]

\* A date string is <<day, tick>>: the calendar day before the 'T' and the
\* time of day after it (tick 0 for a date-only string).
\* new Date(a.date).getTime()
GetTime(trade) == trade.date[1] * TicksPerDay + trade.date[2]

\* trade.date.split('T')[0]
DatePart(trade) == trade.date[1]

\* mutant: a trade goes before the trades of its own timestamp
RECURSIVE InsertSortedBeforeTies(_, _)
InsertSortedBeforeTies(sorted, t) ==
    IF sorted = <<>> THEN <<t>>
    ELSE IF GetTime(sorted[Len(sorted)]) - GetTime(t) >= 0
         THEN Append(InsertSortedBeforeTies(SubSeq(sorted, 1, Len(sorted) - 1), t),
                     sorted[Len(sorted)])
         ELSE Append(sorted, t)

\* [...trades].sort((a, b) => time(a) - time(b)): Array.prototype.sort is stable
RECURSIVE InsertSorted(_, _)
InsertSorted(sorted, t) ==
    IF sorted = <<>> THEN <<t>>
    ELSE IF GetTime(sorted[Len(sorted)]) - GetTime(t) > 0
         THEN Append(InsertSorted(SubSeq(sorted, 1, Len(sorted) - 1), t),
                     sorted[Len(sorted)])
         ELSE Append(sorted, t)

RECURSIVE SortByDate(_)
SortByDate(ts) ==
    IF ts = <<>> THEN <<>>
    ELSE InsertSorted(SortByDate(SubSeq(ts, 1, Len(ts) - 1)), ts[Len(ts)])

----------------------------------------------------------------------------
(* calculatePositions *)

\* positionMap.get(key): the index of the entry, 0 when the key is absent
IndexOfCode(map, code) ==
    IF \E i \in 1..Len(map) : map[i].stockCode = code
    THEN CHOOSE i \in 1..Len(map) : map[i].stockCode = code
    ELSE 0

\* positionMap.get(key) || { stockCode, totalQuantity: 0, totalCost: 0 }
GetExisting(map, code) ==
    IF IndexOfCode(map, code) # 0
    THEN map[IndexOfCode(map, code)]
    ELSE [stockCode |-> code, totalQuantity |-> 0, totalCost |-> Zero]

\* positionMap.set(key, existing): a new key goes last, an old key keeps its place
MapSet(map, entry) ==
    IF IndexOfCode(map, entry.stockCode) # 0
    THEN [map EXCEPT ![IndexOfCode(map, entry.stockCode)] = entry]
    ELSE Append(map, entry)

\* the buy branch
BuyUpdate(existing, trade) ==
    [existing EXCEPT
        !.totalCost = Add(existing.totalCost,
                          Num(trade.price * trade.quantity + CommissionOrZero(trade))),
        !.totalQuantity = existing.totalQuantity + trade.quantity]

\* mutant: the sold quantity is not capped by the held quantity
SellUpdateUncapped(existing, trade) ==
    IF existing.totalQuantity > 0
    THEN LET costPerShare == Div(existing.totalCost, Num(existing.totalQuantity))
         IN  [existing EXCEPT
                !.totalCost = Sub(existing.totalCost, Mul(costPerShare, Num(trade.quantity))),
                !.totalQuantity = existing.totalQuantity - trade.quantity]
    ELSE existing

\* mutant: a sell removes its proceeds, net of commission, from the cost
SellUpdateAtSellPrice(existing, trade) ==
    IF existing.totalQuantity > 0
    THEN LET soldQuantity == Min(trade.quantity, existing.totalQuantity)
         IN  [existing EXCEPT
                !.totalCost = Sub(existing.totalCost,
                                  Num(trade.price * soldQuantity - CommissionOrZero(trade))),
                !.totalQuantity = existing.totalQuantity - soldQuantity]
    ELSE existing

\* the sell branch
SellUpdate(existing, trade) ==
    IF existing.totalQuantity > 0
    THEN LET costPerShare == Div(existing.totalCost, Num(existing.totalQuantity))
             soldQuantity == Min(trade.quantity, existing.totalQuantity)
         IN  [existing EXCEPT
                !.totalCost = Sub(existing.totalCost, Mul(costPerShare, Num(soldQuantity))),
                !.totalQuantity = existing.totalQuantity - soldQuantity]
    ELSE existing

\* the body of the loop over sortedTrades
ApplyTrade(map, trade) ==
    LET existing == GetExisting(map, trade.stockCode)
    IN  MapSet(map, IF trade.type = "buy"
                    THEN BuyUpdate(existing, trade)
                    ELSE SellUpdate(existing, trade))

\* the positionMap after the first k trades of an already sorted sequence
RECURSIVE FoldTrades(_, _)
FoldTrades(sorted, k) ==
    IF k = 0 THEN <<>> ELSE ApplyTrade(FoldTrades(sorted, k - 1), sorted[k])

\* mutant: only negative quantities are skipped
SkippedNegativeOnly(data) == data.totalQuantity < 0

\* if (data.totalQuantity <= 0) continue
Skipped(data) == data.totalQuantity <= 0

\* mutant: a missing price is taken as 0
PriceOrZero(prices, code) ==
    IF code \in DOMAIN prices THEN Num(prices[code]) ELSE Zero

\* currentPrices.get(stockCode) ?? null
PriceOf(prices, code) ==
    IF code \in DOMAIN prices THEN Num(prices[code]) ELSE Null

\* the Position pushed for one entry of positionMap
MakePosition(data, prices) ==
    LET currentPrice == PriceOf(prices, data.stockCode)
        averageCost == IF data.totalQuantity > 0
                       THEN Div(data.totalCost, Num(data.totalQuantity))
                       ELSE Zero
        marketValue == IF currentPrice # Null
                       THEN Mul(currentPrice, Num(data.totalQuantity))
                       ELSE Null
        profitLoss == IF currentPrice # Null
                      THEN Sub(marketValue, data.totalCost)
                      ELSE Null
        profitLossPercent ==
            IF currentPrice # Null
            THEN IF Less(Zero, data.totalCost)
                 THEN Mul(Div(profitLoss, data.totalCost), Num(100))
                 ELSE Zero
            ELSE Null
    IN  [stockCode |-> data.stockCode,
         totalQuantity |-> data.totalQuantity,
         totalCost |-> data.totalCost,
         averageCost |-> averageCost,
         currentPrice |-> currentPrice,
         marketValue |-> marketValue,
         profitLoss |-> profitLoss,
         profitLossPercent |-> profitLossPercent]

\* the second loop: positionMap -> Position[]
EmitPositions(map, prices) ==
    LET kept == SelectSeq(map, LAMBDA data : ~Skipped(data))
    IN  [i \in 1..Len(kept) |-> MakePosition(kept[i], prices)]

\* the whole function
CalculatePositions(ts, prices) ==
    EmitPositions(FoldTrades(SortByDate(ts), Len(ts)), prices)

----------------------------------------------------------------------------
(* calculateTotalProfitLoss *)

RECURSIVE SumTotalCost(_)
SumTotalCost(ps) ==
    IF ps = <<>> THEN Zero
    ELSE Add(SumTotalCost(SubSeq(ps, 1, Len(ps) - 1)), ps[Len(ps)].totalCost)

\* mutant: the running market value is overwritten instead of accumulated
LastMarketValue(ps) ==
    IF \E i \in 1..Len(ps) : ps[i].marketValue # Null
    THEN ps[CHOOSE i \in 1..Len(ps) :
                /\ ps[i].marketValue # Null
                /\ \A j \in (i + 1)..Len(ps) : ps[j].marketValue = Null].marketValue
    ELSE Zero

RECURSIVE SumMarketValue(_)
SumMarketValue(ps) ==
    IF ps = <<>> THEN Zero
    ELSE IF ps[Len(ps)].marketValue # Null
         THEN Add(SumMarketValue(SubSeq(ps, 1, Len(ps) - 1)), ps[Len(ps)].marketValue)
         ELSE SumMarketValue(SubSeq(ps, 1, Len(ps) - 1))

HasAnyPrice(ps) == \E i \in 1..Len(ps) : ps[i].marketValue # Null

\* mutant: no early return, the empty input falls through to the unknown totals
EmptyTotalsUnknown ==
    [totalCost |-> Zero, totalMarketValue |-> Null,
     totalProfitLoss |-> Null, totalProfitLossPercent |-> Null]

\* the early return for positions.length === 0
EmptyTotals ==
    [totalCost |-> Zero, totalMarketValue |-> Zero,
     totalProfitLoss |-> Zero, totalProfitLossPercent |-> Zero]

\* mutant: the profit is taken against the cost of the priced positions only
CalculateTotalProfitLossPricedCost(ps) ==
    LET totalCost == SumTotalCost(ps)
        totalMarketValue == SumMarketValue(ps)
        hasAnyPrice == HasAnyPrice(ps)
        pricedCost == SumTotalCost(SelectSeq(ps, LAMBDA pos : pos.marketValue # Null))
        totalProfitLoss == IF hasAnyPrice THEN Sub(totalMarketValue, pricedCost) ELSE Null
        totalProfitLossPercent ==
            IF hasAnyPrice /\ Less(Zero, totalCost)
            THEN Mul(Div(totalProfitLoss, totalCost), Num(100))
            ELSE Null
    IN  IF Len(ps) = 0 THEN EmptyTotals
        ELSE [totalCost |-> totalCost,
              totalMarketValue |-> IF hasAnyPrice THEN totalMarketValue ELSE Null,
              totalProfitLoss |-> totalProfitLoss,
              totalProfitLossPercent |-> totalProfitLossPercent]

CalculateTotalProfitLoss(ps) ==
    LET totalCost == SumTotalCost(ps)
        totalMarketValue == SumMarketValue(ps)
        hasAnyPrice == HasAnyPrice(ps)
        totalProfitLoss == IF hasAnyPrice THEN Sub(totalMarketValue, totalCost) ELSE Null
        totalProfitLossPercent ==
            IF hasAnyPrice /\ Less(Zero, totalCost)
            THEN Mul(Div(totalProfitLoss, totalCost), Num(100))
            ELSE Null
    IN  IF Len(ps) = 0 THEN EmptyTotals
        ELSE [totalCost |-> totalCost,
              totalMarketValue |-> IF hasAnyPrice THEN totalMarketValue ELSE Null,
              totalProfitLoss |-> totalProfitLoss,
              totalProfitLossPercent |-> totalProfitLossPercent]

----------------------------------------------------------------------------
(* analyzeTradeHistory *)

\* stockInventory.get(trade.stockCode) || { quantity: 0, totalCost: 0 }
GetInventory(inv, code) ==
    IF code \in DOMAIN inv THEN inv[code] ELSE [quantity |-> 0, totalCost |-> Zero]

\* stockInventory.set(code, inventory)
SetInventory(inv, code, entry) ==
    [c \in DOMAIN inv \cup {code} |-> IF c = code THEN entry ELSE inv[c]]

\* const tradeAmount = trade.price * trade.quantity
TradeAmount(trade) == trade.price * trade.quantity

\* mutant: the cost of the whole sell quantity is removed, held or not
CostOfSoldUncapped(inventory, trade) ==
    IF inventory.quantity > 0
    THEN LET avgCost == Div(inventory.totalCost, Num(inventory.quantity))
         IN  Mul(avgCost, Num(trade.quantity))
    ELSE Zero

\* costOfSold of a sell (0 when nothing is held: the branch is not entered)
CostOfSold(inventory, trade) ==
    IF inventory.quantity > 0
    THEN LET avgCost == Div(inventory.totalCost, Num(inventory.quantity))
             soldQuantity == Min(trade.quantity, inventory.quantity)
         IN  Mul(avgCost, Num(soldQuantity))
    ELSE Zero

\* tradeProfit
TradeProfit(inventory, trade) ==
    IF trade.type = "sell" /\ inventory.quantity > 0
    THEN Sub(Num(TradeAmount(trade) - CommissionOrZero(trade)),
             CostOfSold(inventory, trade))
    ELSE Zero

\* the inventory of the trade's instrument after the trade
InventoryAfter(inventory, trade) ==
    IF trade.type = "buy"
    THEN [quantity |-> inventory.quantity + trade.quantity,
          totalCost |-> Add(inventory.totalCost,
                            Num(TradeAmount(trade) + CommissionOrZero(trade)))]
    ELSE IF inventory.quantity > 0
         THEN [quantity |-> inventory.quantity - Min(trade.quantity, inventory.quantity),
               totalCost |-> Sub(inventory.totalCost, CostOfSold(inventory, trade))]
         ELSE inventory

\* mutant: a buy adds its amount without the commission to the running cost
CumulativeAfterAmountOnly(cumulative, inventory, trade) ==
    IF trade.type = "buy"
    THEN Add(cumulative, Num(TradeAmount(trade)))
    ELSE IF inventory.quantity > 0
         THEN Sub(cumulative, CostOfSold(inventory, trade))
         ELSE cumulative

\* currentCumulativeCost after the trade
CumulativeAfter(cumulative, inventory, trade) ==
    IF trade.type = "buy"
    THEN Add(cumulative, Num(TradeAmount(trade) + CommissionOrZero(trade)))
    ELSE IF inventory.quantity > 0
         THEN Sub(cumulative, CostOfSold(inventory, trade))
         ELSE cumulative

\* mutant: the cost of a point is the cost basis, commission included
MakePointWithCommission(cumulative, inventory, trade) ==
    [date |-> DatePart(trade),
     cost |-> Num(TradeAmount(trade) + CommissionOrZero(trade)),
     profit |-> TradeProfit(inventory, trade),
     cumulativeCost |-> CumulativeAfter(cumulative, inventory, trade)]

\* the point pushed for the trade
MakePoint(cumulative, inventory, trade) ==
    [date |-> DatePart(trade),
     cost |-> Num(TradeAmount(trade)),
     profit |-> TradeProfit(inventory, trade),
     cumulativeCost |-> CumulativeAfter(cumulative, inventory, trade)]

\* the state of the loop: inventory map, running cost, points
AnalysisStart == [inv |-> <<>>, cum |-> Zero, pts |-> <<>>]

\* one iteration of the loop over sortedTrades
AnalyzeStep(st, trade) ==
    LET inventory == GetInventory(st.inv, trade.stockCode)
    IN  [inv |-> SetInventory(st.inv, trade.stockCode, InventoryAfter(inventory, trade)),
         cum |-> CumulativeAfter(st.cum, inventory, trade),
         pts |-> Append(st.pts, MakePoint(st.cum, inventory, trade))]

RECURSIVE AnalyzeFold(_, _)
AnalyzeFold(sorted, k) ==
    IF k = 0 THEN AnalysisStart ELSE AnalyzeStep(AnalyzeFold(sorted, k - 1), sorted[k])

\* the whole function
AnalyzeTradeHistory(ts) == AnalyzeFold(SortByDate(ts), Len(ts)).pts

----------------------------------------------------------------------------
(* TradeAnalysisChart: processedData *)

\* map.get(p.date): the index of the element of that date, 0 when absent
IndexOfDate(map, date) ==
    IF \E i \in 1..Len(map) : map[i].date = date
    THEN CHOOSE i \in 1..Len(map) : map[i].date = date
    ELSE 0

\* mutant: the element of a date keeps the cumulativeCost of its first point
CollapsePointKeepsFirst(map, p) ==
    IF IndexOfDate(map, p.date) # 0
    THEN [map EXCEPT ![IndexOfDate(map, p.date)] =
            [@ EXCEPT !.cost = Add(@, p.cost), !.profit = Add(@, p.profit)]]
    ELSE Append(map, p)

\* the body of data.forEach: the element of the date is added to, or a copy of
\* the point is entered under its date
CollapsePoint(map, p) ==
    IF IndexOfDate(map, p.date) # 0
    THEN [map EXCEPT ![IndexOfDate(map, p.date)] =
            [@ EXCEPT !.cost = Add(@, p.cost),
                      !.profit = Add(@, p.profit),
                      !.cumulativeCost = p.cumulativeCost]]
    ELSE Append(map, p)

RECURSIVE CollapseFold(_, _)
CollapseFold(data, k) ==
    IF k = 0 THEN <<>> ELSE CollapsePoint(CollapseFold(data, k - 1), data[k])

\* new Date(a.date).getTime() of the date-only string of a point
PointTime(p) == p.date * TicksPerDay

\* Array.from(map.values()).sort((a, b) => time(a) - time(b))
RECURSIVE InsertPoint(_, _)
InsertPoint(sorted, p) ==
    IF sorted = <<>> THEN <<p>>
    ELSE IF PointTime(sorted[Len(sorted)]) - PointTime(p) > 0
         THEN Append(InsertPoint(SubSeq(sorted, 1, Len(sorted) - 1), p),
                     sorted[Len(sorted)])
         ELSE Append(sorted, p)

RECURSIVE SortPoints(_)
SortPoints(ps) ==
    IF ps = <<>> THEN <<>>
    ELSE InsertPoint(SortPoints(SubSeq(ps, 1, Len(ps) - 1)), ps[Len(ps)])

\* the whole useMemo callback
ProcessedData(data) ==
    IF Len(data) = 0 THEN <<>> ELSE SortPoints(CollapseFold(data, Len(data)))

----------------------------------------------------------------------------
(* The state machine: a ledger snapshot, then the calls the application makes
   on it (App: displayPositions, displayTotals; TradeAnalysisChart: points) *)

Ledgers ==
    UNION { [1..n -> TradeUniverse] : n \in 0..MaxTrades }
    \cup ExampleLedgers \cup TimedLedgers

PriceMaps == UNION { [D -> QuotePrices] : D \in SUBSET Codes }

\* no engine call has been made
EngineAtRest ==
    /\ pc = "idle"
    /\ sortedTrades = <<>>
    /\ idx = 0
    /\ positionMap = <<>>
    /\ currentPrices = <<>>
    /\ positions = <<>>
    /\ totals = Null
    /\ stockInventory = <<>>
    /\ currentCumulativeCost = Zero
    /\ points = <<>>
    /\ processedData = <<>>

\* the ledger hook and the form, left aside
LedgerAtRest ==
    /\ storage = Null
    /\ effectPending = FALSE
    /\ generated = 0
    /\ isModalOpen = FALSE
    /\ editingTrade = Null

\* useState(new Map()), no call issued
QuotesAtRest ==
    /\ quotes = <<>>
    /\ inflight = {}
    /\ issued = 0
    /\ settled = {}
    /\ loading = FALSE
    /\ error = Null

\* AIAssistant with nothing stored and no key configured
ChatAtRest ==
    /\ conversations = <<>>
    /\ activeId = ""
    /\ isTyping = FALSE
    /\ sends = {}
    /\ sent = 0
    /\ chatsMade = 0
    /\ chatStorage = [conversations |-> Null, activeId |-> ""]
    /\ chatEffectPending = FALSE
    /\ apiKey = ""

\* StockSearch of an empty form, no search issued
SearchAtRest ==
    /\ query = ""
    /\ value = ""
    /\ results = <<>>
    /\ resultsFrom = 0
    /\ searchLoading = FALSE
    /\ showDropdown = FALSE
    /\ timer = FALSE
    /\ requests = {}
    /\ controller = 0
    /\ searched = 0

Init ==
    /\ trades \in Ledgers
    /\ EngineAtRest
    /\ LedgerAtRest
    /\ QuotesAtRest
    /\ ChatAtRest
    /\ SearchAtRest

\* mutant: the input array itself is sorted (trades.sort without the copy)
PositionsSortInPlace ==
    /\ pc = "idle"
    /\ trades' = SortByDate(trades)
    /\ sortedTrades' = SortByDate(trades)
    /\ idx' = 1
    /\ positionMap' = <<>>
    /\ pc' = "positionsLoop"
    /\ UNCHANGED <<currentPrices, positions, totals, stockInventory,
                   currentCumulativeCost, points>>
    /\ UNCHANGED <<processedData, hookVars>>

\* calculatePositions is entered: the sorted copy is made
PositionsSort ==
    /\ pc = "idle"
    /\ sortedTrades' = SortByDate(trades)
    /\ idx' = 1
    /\ positionMap' = <<>>
    /\ pc' = "positionsLoop"
    /\ UNCHANGED <<trades, currentPrices, positions, totals, stockInventory,
                   currentCumulativeCost, points>>
    /\ UNCHANGED <<processedData, hookVars>>

\* one iteration of for (const trade of sortedTrades)
PositionsStep ==
    /\ pc = "positionsLoop"
    /\ idx <= Len(sortedTrades)
    /\ positionMap' = ApplyTrade(positionMap, sortedTrades[idx])
    /\ idx' = idx + 1
    /\ UNCHANGED <<trades, pc, sortedTrades, currentPrices, positions, totals,
                   stockInventory, currentCumulativeCost, points>>
    /\ UNCHANGED <<processedData, hookVars>>

\* the second loop and the return; the price map argument is first read here
PositionsEmit ==
    /\ pc = "positionsLoop"
    /\ idx > Len(sortedTrades)
    /\ \E prices \in PriceMaps :
        /\ currentPrices' = prices
        /\ positions' = EmitPositions(positionMap, prices)
    /\ pc' = "positionsDone"
    /\ UNCHANGED <<trades, sortedTrades, idx, positionMap, totals, stockInventory,
                   currentCumulativeCost, points>>
    /\ UNCHANGED <<processedData, hookVars>>

\* calculateTotalProfitLoss(displayPositions)
TotalsCall ==
    /\ pc = "positionsDone"
    /\ totals' = CalculateTotalProfitLoss(positions)
    /\ pc' = "totalsDone"
    /\ UNCHANGED <<trades, sortedTrades, idx, positionMap, currentPrices, positions,
                   stockInventory, currentCumulativeCost, points>>
    /\ UNCHANGED <<processedData, hookVars>>

\* analyzeTradeHistory is entered: the sorted copy is made
AnalysisSort ==
    /\ pc = "idle"
    /\ sortedTrades' = SortByDate(trades)
    /\ idx' = 1
    /\ stockInventory' = AnalysisStart.inv
    /\ currentCumulativeCost' = AnalysisStart.cum
    /\ points' = AnalysisStart.pts
    /\ pc' = "analysisLoop"
    /\ UNCHANGED <<trades, positionMap, currentPrices, positions, totals>>
    /\ UNCHANGED <<processedData, hookVars>>

\* one iteration of for (const trade of sortedTrades)
AnalysisStep ==
    /\ pc = "analysisLoop"
    /\ idx <= Len(sortedTrades)
    /\ LET st == AnalyzeStep([inv |-> stockInventory, cum |-> currentCumulativeCost,
                              pts |-> points], sortedTrades[idx])
       IN  /\ stockInventory' = st.inv
           /\ currentCumulativeCost' = st.cum
           /\ points' = st.pts
    /\ idx' = idx + 1
    /\ UNCHANGED <<trades, pc, sortedTrades, positionMap, currentPrices, positions,
                   totals>>
    /\ UNCHANGED <<processedData, hookVars>>

\* return points
AnalysisReturn ==
    /\ pc = "analysisLoop"
    /\ idx > Len(sortedTrades)
    /\ pc' = "analysisDone"
    /\ UNCHANGED <<trades, sortedTrades, idx, positionMap, currentPrices, positions,
                   totals, stockInventory, currentCumulativeCost, points>>
    /\ UNCHANGED <<processedData, hookVars>>

\* the chart is shown on the returned points: processedData is computed
ChartCollapse ==
    /\ pc = "analysisDone"
    /\ processedData' = ProcessedData(points)
    /\ pc' = "chartDone"
    /\ UNCHANGED <<trades, sortedTrades, idx, positionMap, currentPrices, positions,
                   totals, stockInventory, currentCumulativeCost, points>>
    /\ UNCHANGED hookVars

Next ==
    \/ PositionsSort
    \/ PositionsStep
    \/ PositionsEmit
    \/ TotalsCall
    \/ AnalysisSort
    \/ AnalysisStep
    \/ AnalysisReturn
    \/ ChartCollapse

Spec == Init /\ [][Next]_vars

\* TradeList: analyzeTradeHistory on the selected trades, and their chart
AnalysisNext ==
    \/ AnalysisSort
    \/ AnalysisStep
    \/ AnalysisReturn
    \/ ChartCollapse

AnalysisSpec == Init /\ [][AnalysisNext]_vars

----------------------------------------------------------------------------
(* The ledger: useTrades with its effect on local storage, the trade form
   (TradeForm.handleSubmit, App.handleAddTrade) and the file import
   (TradeList.handleImport).  A window.alert or a confirm that is declined
   changes no state and is a step that leaves everything as it is. *)

MaxLedger == 3

\* the state that the ledger handlers do not touch
notLedger == <<engineVars, quoteVars, chatVars, searchVars>>

\* Ids are strings in the source.  generateId (time and random digits) is taken
\* to return an id never seen before: the k-th id it hands out is k, of the
\* ids GeneratedIds.  An id made earlier, by a former session or by the writer
\* of an imported file, is 0.
EarlierIds == {0}
GeneratedIds == {1, 2}
GenerateId == generated + 1
KnownIds == EarlierIds \cup 1..generated

\* a ledger trade (stockName and tags left out; every trade a buy of one day)
LedgerTrade(id, code, price, quantity, commission) ==
    [id |-> id, stockCode |-> code, type |-> "buy", price |-> price,
     quantity |-> quantity, date |-> <<1, 0>>, commission |-> commission]

\* JSON.stringify of a trade: a property whose value is undefined is left out,
\* a commission is written as a number
StringifyTrade(t) ==
    [f \in (IF t.commission = Undefined THEN DOMAIN t \ {"commission"} ELSE DOMAIN t) |->
        IF f = "commission" THEN t.commission[1] ELSE t[f]]

\* JSON.parse of a trade: reading a property that is not there gives undefined
ParseTrade(j) ==
    [f \in DOMAIN j \cup {"commission"} |->
        IF f = "commission"
        THEN IF "commission" \in DOMAIN j THEN <<j.commission>> ELSE Undefined
        ELSE j[f]]

\* JSON.stringify(trades)
Stringify(ts) == [k \in 1..Len(ts) |-> StringifyTrade(ts[k])]

\* stored ? JSON.parse(stored) : []   (storage is Null or <<text>>)
Load(stored) ==
    IF stored = Null THEN <<>>
    ELSE [k \in 1..Len(stored[1]) |-> ParseTrade(stored[1][k])]

\* setTrades(prev => [...prev, trade])
AddTrade(prev, trade) == Append(prev, trade)

\* { ...t, ...updates }
Merge(t, updates) ==
    [f \in DOMAIN t \cup DOMAIN updates |->
        IF f \in DOMAIN updates THEN updates[f] ELSE t[f]]

\* mutant: the edited trade is taken out and put at the end
UpdateTradeAtEnd(prev, id, updates) ==
    IF \E k \in 1..Len(prev) : prev[k].id = id
    THEN Append(SelectSeq(prev, LAMBDA t : t.id # id), updates)
    ELSE prev

\* prev.map(t => (t.id === id ? { ...t, ...updates } : t))
UpdateTrade(prev, id, updates) ==
    [k \in 1..Len(prev) |-> IF prev[k].id = id THEN Merge(prev[k], updates) ELSE prev[k]]

\* prev.filter(t => t.id !== id)
DeleteTrade(prev, id) == SelectSeq(prev, LAMBDA t : t.id # id)

\* prev.filter(t => !ids.includes(t.id))
BatchDeleteTrades(prev, ids) == SelectSeq(prev, LAMBDA t : t.id \notin ids)

\* mutant: every imported trade is appended
ImportTradesUnfiltered(prev, newTrades) == prev \o newTrades

\* [...prev, ...newTrades.filter(t => !existingIds.has(t.id))]
ImportTrades(prev, newTrades) ==
    LET existingIds == { prev[k].id : k \in 1..Len(prev) }
    IN  prev \o SelectSeq(newTrades, LAMBDA t : t.id \notin existingIds)

\* The form fields are strings: the code as typed, the values of the number
\* inputs.  The commission is left empty, the kind and the date as preset.
FormCodes == {"", "a"}
FormPrices == {"", "-1", "0", "2"}
FormQuantities == {"", "0", "1"}
Forms == [stockCode : FormCodes, price : FormPrices, quantity : FormQuantities]

\* stockCode.toUpperCase()
ToUpperCase(str) == IF str = "a" THEN "A" ELSE str

\* isNaN(parseFloat(str)): the text does not start with a number
ParsesToNaN(str) == str \notin {"-1", "0", "1", "2", "8", "10", "11", "20"}

\* parseFloat(price), parseInt(quantity, 10) of the value of a number input
ParseFloat(str) ==
    CASE str = "-1" -> -1 [] str = "0" -> 0 [] str = "1" -> 1 [] str = "2" -> 2
      [] str = "8" -> 8 [] str = "10" -> 10 [] str = "11" -> 11 [] str = "20" -> 20
ParseInt(str) == CASE str = "-1" -> -1 [] str = "0" -> 0 [] str = "1" -> 1 [] str = "2" -> 2

\* the browser's validation of the controls before the submit event:
\* price required, min="0"; quantity required, min="1"
ControlsValid(form) ==
    /\ form.price # ""
    /\ ParseFloat(form.price) >= 0
    /\ form.quantity # ""
    /\ ParseInt(form.quantity) >= 1

\* if (!stockCode || !price || !quantity) { alert(...); return; }
FieldsMissing(form) == form.stockCode = "" \/ form.price = "" \/ form.quantity = ""

\* the trade built by handleSubmit; initialValues is the trade being edited
FormTrade(form, initialValues) ==
    LedgerTrade(IF initialValues # Null THEN initialValues.id ELSE GenerateId,
                ToUpperCase(form.stockCode),
                ParseFloat(form.price),
                ParseInt(form.quantity),
                Undefined)

\* the files a user can pick: arrays of trades with ids known so far
ImportShapes == { <<"A", 2, 1, <<1>>>>, <<"", 2, 1, Undefined>>, <<"A", -1, 0, Undefined>> }
FileLengths == {0, 1, 2}
ImportFiles ==
    UNION { [1..n -> { LedgerTrade(id, sh[1], sh[2], sh[3], sh[4]) :
                          id \in KnownIds, sh \in ImportShapes }] : n \in FileLengths }

\* what a former session left in local storage
StoredLedgers == { <<>>, <<LedgerTrade(0, "A", 2, 1, <<1>>)>> }

\* the page is loaded: useState(() => JSON.parse(stored) or []), and the
\* effect of the first render is due
LedgerInit ==
    /\ storage \in {Null} \cup { <<Stringify(l)>> : l \in StoredLedgers }
    /\ trades = Load(storage)
    /\ effectPending = TRUE
    /\ generated = 0
    /\ isModalOpen = FALSE
    /\ editingTrade = Null
    /\ EngineAtRest
    /\ QuotesAtRest
    /\ ChatAtRest
    /\ SearchAtRest

\* mutant: the effect writes under another key
PersistEffectOtherKey ==
    /\ effectPending
    /\ effectPending' = FALSE
    /\ UNCHANGED <<trades, storage, generated, isModalOpen, editingTrade>>
    /\ UNCHANGED notLedger

\* useEffect(() => localStorage.setItem(KEY, JSON.stringify(trades)), [trades]).
\* React runs the effect of a render before it handles a later update, so the
\* handlers below wait for it.
PersistEffect ==
    /\ effectPending
    /\ storage' = <<Stringify(trades)>>
    /\ effectPending' = FALSE
    /\ UNCHANGED <<trades, generated, isModalOpen, editingTrade>>
    /\ UNCHANGED notLedger

\* the button that opens the empty form
OpenModal ==
    /\ ~effectPending
    /\ ~isModalOpen
    /\ isModalOpen' = TRUE
    /\ UNCHANGED <<trades, storage, effectPending, generated, editingTrade>>
    /\ UNCHANGED notLedger

\* App.handleEditClick(trade)
HandleEditClick ==
    /\ ~effectPending
    /\ ~isModalOpen
    /\ \E k \in 1..Len(trades) : editingTrade' = trades[k]
    /\ isModalOpen' = TRUE
    /\ UNCHANGED <<trades, storage, effectPending, generated>>
    /\ UNCHANGED notLedger

\* App.handleCloseModal
HandleCloseModal ==
    /\ ~effectPending
    /\ isModalOpen
    /\ isModalOpen' = FALSE
    /\ editingTrade' = Null
    /\ UNCHANGED <<trades, storage, effectPending, generated>>
    /\ UNCHANGED notLedger

\* the submit button with the form filled as given: the browser's validation,
\* TradeForm.handleSubmit, App.handleAddTrade
SubmitForm(form) ==
    /\ ~effectPending
    /\ isModalOpen
    /\ IF ~ControlsValid(form) \/ FieldsMissing(form)
       THEN UNCHANGED <<trades, effectPending, generated, isModalOpen, editingTrade>>
       ELSE /\ editingTrade = Null => (GenerateId \in GeneratedIds /\ Len(trades) < MaxLedger)
            /\ trades' = IF editingTrade # Null
                         THEN UpdateTrade(trades, editingTrade.id,
                                          FormTrade(form, editingTrade))
                         ELSE AddTrade(trades, FormTrade(form, editingTrade))
            /\ generated' = IF editingTrade # Null THEN generated ELSE generated + 1
            /\ effectPending' = TRUE
            /\ isModalOpen' = FALSE
            /\ editingTrade' = Null
    /\ UNCHANGED storage
    /\ UNCHANGED notLedger

HandleSubmit == \E form \in Forms : SubmitForm(form)

\* the delete button of a row, confirmed: onDelete(trade.id)
DeleteOf(id) ==
    /\ ~effectPending
    /\ ~isModalOpen
    /\ \E k \in 1..Len(trades) : trades[k].id = id
    /\ trades' = DeleteTrade(trades, id)
    /\ effectPending' = TRUE
    /\ UNCHANGED <<storage, generated, isModalOpen, editingTrade>>
    /\ UNCHANGED notLedger

HandleDelete == \E id \in KnownIds : DeleteOf(id)

\* TradeList.handleBatchDelete, confirmed: onBatchDelete(selectedIds); the
\* selection may hold ids of trades that are gone
BatchDeleteOf(ids) ==
    /\ ~effectPending
    /\ ~isModalOpen
    /\ ids # {}
    /\ trades' = BatchDeleteTrades(trades, ids)
    /\ effectPending' = TRUE
    /\ UNCHANGED <<storage, generated, isModalOpen, editingTrade>>
    /\ UNCHANGED notLedger

HandleBatchDelete == \E ids \in SUBSET KnownIds : BatchDeleteOf(ids)

\* TradeList.handleImport with a file that parses to an array: onImport(array)
ImportOf(file) ==
    /\ ~effectPending
    /\ ~isModalOpen
    /\ Len(ImportTrades(trades, file)) <= MaxLedger
    /\ trades' = ImportTrades(trades, file)
    /\ effectPending' = TRUE
    /\ UNCHANGED <<storage, generated, isModalOpen, editingTrade>>
    /\ UNCHANGED notLedger

HandleImport == \E file \in ImportFiles : ImportOf(file)

\* the page is loaded again (the ids handed out stay used)
Reload ==
    /\ trades' = Load(storage)
    /\ effectPending' = TRUE
    /\ isModalOpen' = FALSE
    /\ editingTrade' = Null
    /\ UNCHANGED <<storage, generated>>
    /\ UNCHANGED notLedger

LedgerNext ==
    \/ PersistEffect
    \/ OpenModal
    \/ HandleEditClick
    \/ HandleCloseModal
    \/ HandleSubmit
    \/ HandleDelete
    \/ HandleBatchDelete
    \/ HandleImport
    \/ Reload

LedgerSpec == LedgerInit /\ [][LedgerNext]_vars

\* the effect of a render is run: React does not leave it out
LedgerLive == LedgerSpec /\ WF_vars(PersistEffect)

----------------------------------------------------------------------------
(* The quote map: useStockQuote, with the calls App and PositionSummary make.
   The ledger is fixed and the positions tab is shown.  A call of fetchQuotes
   is suspended at its await until the response arrives or the request fails;
   several calls can be suspended at once, and they complete in any order. *)

notQuotes == <<trades, engineVars, ledgerVars, chatVars, searchVars>>

\* the calls of fetchQuotes of a run are numbered in the order of issue
CallNumbers == {1, 2, 3}

\* getFullCode: the market prefix is put in front of a code that has none
GetFullCode(code) ==
    CASE code = "A" -> "shA" [] code = "B" -> "szB" [] OTHER -> code

\* code.replace(/^(sh|sz|bj)/i, '')
StripPrefix(code) ==
    CASE code = "shA" -> "A" [] code = "szB" -> "B" [] OTHER -> code

\* the price the provider lists for a symbol, as text
ListedPrice(symbol) == IF symbol = "shA" THEN "10" ELSE "11"

\* a line of the response: var hq_str_<symbol>="<parts joined by commas>";
\* parts are name, open, previous close, price
QuoteLine(symbol, price) == [symbol |-> symbol, parts |-> <<"n", "8", "8", price>>]

\* var hq_str_<symbol>="";  the provider has no data for the symbol
NoDataLine(symbol) == [symbol |-> symbol, parts |-> <<>>]

\* an empty line
BlankLine == [symbol |-> "", parts |-> <<>>]

\* what the provider may send for one requested symbol: its quote, a price
\* of 0, a price that is not a number, no data, or nothing
LinesFor(symbol) ==
    { QuoteLine(symbol, ListedPrice(symbol)), QuoteLine(symbol, "0"),
      QuoteLine(symbol, "-"), NoDataLine(symbol), BlankLine }

\* the responses to list=<the full codes of codes, joined by commas>
Responses(codes) ==
    { r \in [1..Len(codes) -> UNION { LinesFor(GetFullCode(codes[k])) : k \in 1..Len(codes) }
                                  \cup {BlankLine}] :
        \A k \in 1..Len(codes) : r[k] \in LinesFor(GetFullCode(codes[k])) }

\* text.split('\n').filter(line => line.trim())
Lines(text) == SelectSeq(text, LAMBDA line : line # BlankLine)

\* mutant: a price of 0 is taken as a quote
ParseQuoteDataKeepsZero(line, code) ==
    IF line.parts = <<>> THEN Null
    ELSE IF Len(line.parts) < 4 THEN Null
    ELSE IF ParsesToNaN(line.parts[4]) THEN Null
    ELSE [code |-> StripPrefix(code),
          price |-> ParseFloat(line.parts[4]),
          change |-> Num(ParseFloat(line.parts[4]) - ParseFloat(line.parts[3])),
          changePercent |-> Zero]

\* parseQuoteData(text, code)
ParseQuoteData(line, code) ==
    IF line.parts = <<>> THEN Null
    ELSE IF Len(line.parts) < 4 THEN Null
    ELSE IF ParsesToNaN(line.parts[4]) THEN Null
    ELSE IF ParseFloat(line.parts[4]) = 0 THEN Null
    ELSE LET prevClose == ParseFloat(line.parts[3])
             price == ParseFloat(line.parts[4])
             change == price - prevClose
         IN  [code |-> StripPrefix(code),
              price |-> price,
              change |-> Num(change),
              changePercent |-> IF prevClose > 0
                                THEN Mul(Div(Num(change), Num(prevClose)), Num(100))
                                ELSE Zero]

\* quotes.get(code): the index of the entry, 0 when the key is absent
QuoteIndex(map, code) ==
    IF \E i \in 1..Len(map) : map[i].key = code
    THEN CHOOSE i \in 1..Len(map) : map[i].key = code
    ELSE 0

\* map.set(code, quote)
QuoteSet(map, code, quote) ==
    IF QuoteIndex(map, code) # 0
    THEN [map EXCEPT ![QuoteIndex(map, code)] = [key |-> code, quote |-> quote]]
    ELSE Append(map, [key |-> code, quote |-> quote])

\* lines.forEach((line, index) => ...) over the first k lines
RECURSIVE NewQuotes(_, _, _)
NewQuotes(codes, lines, k) ==
    IF k = 0 THEN <<>>
    ELSE LET map == NewQuotes(codes, lines, k - 1)
             code == IF k <= Len(codes) THEN codes[k] ELSE ""
             quote == ParseQuoteData(lines[k], code)
         IN  IF code # "" /\ quote # Null THEN QuoteSet(map, code, quote) ELSE map

\* the map fetchQuotes passes to setQuotes
FetchedQuotes(codes, text) ==
    NewQuotes(codes, Lines(text), Len(Lines(text)))

\* setManualPrice(code, price): the updater of setQuotes
SetManualPrice(prev, code, price) ==
    QuoteSet(prev, code,
             [code |-> code, price |-> price, change |-> Zero, changePercent |-> Zero])

\* App.currentPrices: quotes.forEach((quote, code) => prices.set(code, quote.price))
CurrentPricesOf(map) ==
    [c \in {map[i].key : i \in 1..Len(map)} |-> map[QuoteIndex(map, c)].quote.price]

\* App.allStocks, allStockCodes: the codes of the ledger, each once, in the
\* order of their first trade
RECURSIVE AllStockCodes(_)
AllStockCodes(ts) ==
    IF ts = <<>> THEN <<>>
    ELSE LET before == AllStockCodes(SubSeq(ts, 1, Len(ts) - 1))
             code == ts[Len(ts)].stockCode
         IN  IF \E i \in 1..Len(before) : before[i] = code
             THEN before ELSE Append(before, code)

\* the codes of the rows of PositionSummary
RowCodes ==
    LET ps == CalculatePositions(trades, CurrentPricesOf(quotes))
    IN  {ps[i].stockCode : i \in 1..Len(ps)}

\* what the user types into the price input of a row
EditPrices == {"", "0", "20"}

QuoteLedgers ==
    { <<Trade("A", "buy", 1, 1, <<1, 0>>, Undefined)>>,
      <<Trade("A", "buy", 1, 1, <<1, 0>>, Undefined),
        Trade("B", "buy", 2, 1, <<2, 0>>, Undefined)>>,
      <<Trade("B", "buy", 2, 1, <<1, 0>>, Undefined),
        Trade("A", "buy", 1, 2, <<2, 0>>, Undefined),
        Trade("B", "sell", 2, 1, <<2, 0>>, Undefined)>> }

\* App is mounted: no quotes, and the effect that loads them has not run
QuoteInit ==
    /\ trades \in QuoteLedgers
    /\ EngineAtRest
    /\ LedgerAtRest
    /\ QuotesAtRest
    /\ ChatAtRest
    /\ SearchAtRest

\* fetchQuotes(codes, silent) up to its await
FetchQuotes(silent) ==
    /\ AllStockCodes(trades) # <<>>
    /\ issued + 1 \in CallNumbers
    /\ issued' = issued + 1
    /\ inflight' = inflight \cup
           {[n |-> issued + 1, codes |-> AllStockCodes(trades), silent |-> silent]}
    /\ loading' = IF silent THEN loading ELSE TRUE
    /\ error' = Null
    /\ UNCHANGED <<quotes, settled, notQuotes>>

\* App: the effect on [allStockCodes], run when App is mounted
AutoLoad ==
    /\ issued = 0
    /\ FetchQuotes(FALSE)

\* App: the 2-second interval, while the market is open
Poll ==
    /\ issued > 0
    /\ FetchQuotes(TRUE)

\* App.handleRefreshQuotes
HandleRefreshQuotes ==
    /\ issued > 0
    /\ FetchQuotes(FALSE)

\* fetchQuotes after its await: the response of a call has arrived
ResolveOf(call, text) ==
    /\ call \in inflight
    /\ text \in Responses(call.codes)
    /\ quotes' = FetchedQuotes(call.codes, text)
    /\ loading' = IF call.silent THEN loading ELSE FALSE
    /\ inflight' = inflight \ {call}
    /\ settled' = settled \cup {[n |-> call.n, ok |-> TRUE]}
    /\ UNCHANGED <<issued, error, notQuotes>>

FetchResolve == \E call \in inflight : \E text \in Responses(call.codes) : ResolveOf(call, text)

\* fetchQuotes after its await: the request has failed (catch, finally)
FetchReject ==
    \E call \in inflight :
        /\ error' = IF call.silent THEN error ELSE "fetch failed"
        /\ loading' = IF call.silent THEN loading ELSE FALSE
        /\ inflight' = inflight \ {call}
        /\ settled' = settled \cup {[n |-> call.n, ok |-> FALSE]}
        /\ UNCHANGED <<quotes, issued, notQuotes>>

\* PositionSummary.handlePriceSave(code) with editPrice = text, through
\* App.handleManualPriceUpdate
PriceSaveOf(code, text) ==
    /\ issued > 0
    /\ code \in RowCodes
    /\ text \in EditPrices
    /\ quotes' = IF ~ParsesToNaN(text) /\ ParseFloat(text) > 0
                 THEN SetManualPrice(quotes, code, ParseFloat(text))
                 ELSE quotes
    /\ UNCHANGED <<inflight, issued, settled, loading, error, notQuotes>>

HandlePriceSave == \E code \in RowCodes : \E text \in EditPrices : PriceSaveOf(code, text)

QuoteNext ==
    \/ AutoLoad
    \/ Poll
    \/ HandleRefreshQuotes
    \/ FetchResolve
    \/ FetchReject
    \/ HandlePriceSave

QuoteSpec == QuoteInit /\ [][QuoteNext]_vars

----------------------------------------------------------------------------
(* Properties.  Sums used to state them, written without the operators above *)

RECURSIVE SumOver(_, _)
SumOver(n, f) == IF n = 0 THEN 0 ELSE f[n] + SumOver(n - 1, f)

\* sum of an integer-valued field expression over a sequence of trades
SumQuantity(ts) == SumOver(Len(ts), [i \in 1..Len(ts) |-> ts[i].quantity])
SumPriceTimesQuantity(ts) ==
    SumOver(Len(ts), [i \in 1..Len(ts) |-> ts[i].price * ts[i].quantity])
SumCommission(ts) ==
    SumOver(Len(ts), [i \in 1..Len(ts) |->
        IF ts[i].commission = <<>> THEN 0 ELSE ts[i].commission[1]])

RECURSIVE RatSum(_, _)
RatSum(n, f) == IF n = 0 THEN <<0, 1>> ELSE Add(f[n], RatSum(n - 1, f))

PositionsReturned == pc \in {"positionsDone", "totalsDone"}

\* the trade applied by the last iteration of the calculatePositions loop,
\* and the accumulator of its instrument before and after that iteration
LastApplied == sortedTrades[idx - 1]
HeldBefore == GetExisting(FoldTrades(sortedTrades, idx - 2), LastApplied.stockCode)
HeldAfter == GetExisting(positionMap, LastApplied.stockCode)
JustApplied == pc = "positionsLoop" /\ idx > 1

\* C1: after every prefix of the sorted trades the accumulated quantity of every
\* instrument is >= 0; a sell lowers the held quantity by min(trade.quantity,
\* held quantity), and a sell while nothing is held changes neither quantity
\* nor cost.
C1_QuantityNeverNegative ==
    /\ \A i \in 1..Len(positionMap) : positionMap[i].totalQuantity >= 0
    /\ (JustApplied /\ LastApplied.type = "sell") =>
          /\ HeldAfter.totalQuantity =
                HeldBefore.totalQuantity
                  - (IF LastApplied.quantity < HeldBefore.totalQuantity
                     THEN LastApplied.quantity ELSE HeldBefore.totalQuantity)
          /\ HeldBefore.totalQuantity = 0 =>
                /\ HeldAfter.totalQuantity = 0
                /\ HeldAfter.totalCost = HeldBefore.totalCost

\* a sell of more than the held quantity has just been applied and was capped
C1_Witness ==
    /\ JustApplied
    /\ LastApplied.type = "sell"
    /\ HeldBefore.totalQuantity > 0
    /\ LastApplied.quantity > HeldBefore.totalQuantity
    /\ HeldAfter.totalQuantity = 0

\* the two positions of the totals example: market value 1000 at cost 800, and
\* an unpriced position of cost 500
TotalsExample ==
    /\ pc = "totalsDone"
    /\ Len(positions) = 2
    /\ \E i, j \in 1..2 :
        /\ positions[i].marketValue = <<1000, 1>>
        /\ positions[i].totalCost = <<800, 1>>
        /\ positions[j].marketValue = <<>>
        /\ positions[j].totalCost = <<500, 1>>

\* C2 as stated: on the totals example totalCost = 1300, totalMarketValue = 1000
\* and totalProfitLoss = 200.
C2_AsStated ==
    TotalsExample =>
        /\ totals.totalCost = <<1300, 1>>
        /\ totals.totalMarketValue = <<1000, 1>>
        /\ totals.totalProfitLoss = <<200, 1>>

\* C2 (amended): on the totals example totalCost = 1300, totalMarketValue = 1000
\* and totalProfitLoss = 1000 - 1300 = -300: the cost of the unpriced position
\* is part of the cost the profit is taken against.
C2_TotalsExample ==
    TotalsExample =>
        /\ totals.totalCost = <<1300, 1>>
        /\ totals.totalMarketValue = <<1000, 1>>
        /\ totals.totalProfitLoss = <<-300, 1>>

C2_Witness == TotalsExample /\ totals.totalCost = <<1300, 1>>

NoKnownMarketValue == \A i \in 1..Len(positions) : positions[i].marketValue = <<>>

CostOfAllPositions ==
    RatSum(Len(positions), [i \in 1..Len(positions) |-> positions[i].totalCost])

TotalsUnknown ==
    /\ totals.totalCost = CostOfAllPositions
    /\ totals.totalMarketValue = <<>>
    /\ totals.totalProfitLoss = <<>>
    /\ totals.totalProfitLossPercent = <<>>

CostBasisExample ==
    /\ Len(trades) = 2
    /\ trades[1] = Trade(trades[1].stockCode, "buy", 10, 100, trades[1].date, <<5>>)
    /\ trades[2].type = "sell"
    /\ trades[2].stockCode = trades[1].stockCode
    /\ trades[2].quantity = 50
    /\ GetTime(trades[2]) > GetTime(trades[1])

BuyOnlyOneInstrument ==
    /\ trades # <<>>
    /\ \A i \in 1..Len(trades) :
        trades[i].type = "buy" /\ trades[i].stockCode = trades[1].stockCode

\* C5: for a buy-only ledger of one instrument the position has totalQuantity =
\* sum of quantities, totalCost = sum of price*quantity + sum of commissions (a
\* missing commission counting 0) and averageCost = totalCost / totalQuantity.
C5_BuyOnlyAverage ==
    (PositionsReturned /\ BuyOnlyOneInstrument) =>
        /\ Len(positions) = 1
        /\ positions[1].totalQuantity = SumQuantity(trades)
        /\ positions[1].totalCost =
              <<SumPriceTimesQuantity(trades) + SumCommission(trades), 1>>
        /\ positions[1].averageCost =
              Rat(SumPriceTimesQuantity(trades) + SumCommission(trades),
                  SumQuantity(trades))

\* three buys, with and without commission, at different prices
C5_Witness ==
    /\ pc = "positionsDone"
    /\ BuyOnlyOneInstrument
    /\ Len(trades) = 3
    /\ \E i, j \in 1..3 :
        /\ trades[i].commission = <<>>
        /\ trades[j].commission # <<>>
        /\ trades[i].price # trades[j].price
    /\ Len(positions) = 1

\* the held quantity of an instrument at the end of the calculatePositions loop
HeldQuantity(code) == GetExisting(positionMap, code).totalQuantity

PositionCodes == { positions[i].stockCode : i \in 1..Len(positions) }

\* C6: every returned position has totalQuantity > 0, and an instrument whose
\* held quantity is 0 at the end of the ledger is absent from the output.
C6_NoClosedPosition ==
    PositionsReturned =>
        /\ \A i \in 1..Len(positions) : positions[i].totalQuantity > 0
        /\ \A c \in Codes : HeldQuantity(c) = 0 => c \notin PositionCodes
        /\ \A c \in Codes : HeldQuantity(c) > 0 => c \in PositionCodes

\* the last trade sold exactly the held quantity of an instrument that another
\* instrument outlives
C6_Witness ==
    /\ pc = "positionsDone"
    /\ Len(trades) = 3
    /\ sortedTrades[3].type = "sell"
    /\ GetExisting(FoldTrades(sortedTrades, 2), sortedTrades[3].stockCode).totalQuantity
          = sortedTrades[3].quantity
    /\ sortedTrades[3].stockCode \notin PositionCodes
    /\ Len(positions) = 1

\* the input with the trades at places i and j exchanged
Swap(ts, i, j) ==
    [k \in 1..Len(ts) |-> IF k = i THEN ts[j] ELSE IF k = j THEN ts[i] ELSE ts[k]]

\* the <<code, totalQuantity, totalCost>> of the positions
Holdings(ps) ==
    { <<ps[k].stockCode, ps[k].totalQuantity, ps[k].totalCost>> : k \in 1..Len(ps) }

\* two trades of the input with the same timestamp, instrument and kind
Tied(i, j) ==
    /\ i < j
    /\ GetTime(trades[i]) = GetTime(trades[j])
    /\ trades[i].stockCode = trades[j].stockCode
    /\ trades[i].type = trades[j].type

\* a trade between them in the input, with their timestamp and instrument and
\* of the other kind
OtherKindBetween(i, j) ==
    \E k \in (i + 1)..(j - 1) :
        /\ GetTime(trades[k]) = GetTime(trades[i])
        /\ trades[k].stockCode = trades[i].stockCode
        /\ trades[k].type # trades[i].type

\* both the accumulators at the end of the loop (closed instruments included)
\* and the returned positions are those of the exchanged input
SwapKeepsHoldings(i, j) ==
    LET swapped == Swap(trades, i, j)
    IN  /\ Holdings(FoldTrades(SortByDate(swapped), Len(swapped))) = Holdings(positionMap)
        /\ Holdings(CalculatePositions(swapped, currentPrices)) = Holdings(positions)

Rearrangements ==
    [n \in 0..(MaxTrades + 1) |->
        { f \in [1..n -> 1..n] : \A a, b \in 1..n : f[a] = f[b] => a = b }]
Permuted(ts, f) == [k \in 1..Len(ts) |-> ts[f[k]]]

SumOfCost(pts) == RatSum(Len(pts), [k \in 1..Len(pts) |-> pts[k].cost])

\* C8: the cost fields of the points of analyzeTradeHistory sum to the sum of
\* price*quantity over the trades, for the ledger and for every rearrangement
\* of it.  (The rearrangements are taken of the ledgers given in time order:
\* every trade sequence is a rearrangement of its time-ordered one.)
C8_CostRoundTrip ==
    pc = "analysisDone" =>
        /\ SumOfCost(points) = <<SumPriceTimesQuantity(trades), 1>>
        /\ trades = sortedTrades =>
              \A f \in Rearrangements[Len(trades)] :
                  SumOfCost(AnalyzeTradeHistory(Permuted(trades, f)))
                     = <<SumPriceTimesQuantity(trades), 1>>

\* three trades on two dates, with a commission and a capped sell, given in
\* time order, so that some of their rearrangements are not
C8_Witness ==
    /\ pc = "analysisDone"
    /\ Len(points) = 3
    /\ trades = sortedTrades
    /\ GetTime(trades[1]) < GetTime(trades[3])
    /\ \E k \in 1..3 : trades[k].commission # <<>>
    /\ \E k \in 1..3 :
          /\ sortedTrades[k].type = "sell"
          /\ LET held == GetInventory(AnalyzeFold(sortedTrades, k - 1).inv,
                                      sortedTrades[k].stockCode).quantity
             IN  0 < held /\ held < sortedTrades[k].quantity

\* C9: in every returned position marketValue, profitLoss and profitLossPercent
\* are present exactly when currentPrice is, and currentPrice is present exactly
\* when the price map has an entry under the position's code.
C9_PriceFieldsTogether ==
    PositionsReturned =>
        \A i \in 1..Len(positions) :
            LET p == positions[i]
                priced == p.stockCode \in DOMAIN currentPrices
            IN  /\ (p.currentPrice # <<>>) <=> priced
                /\ (p.marketValue # <<>>) <=> priced
                /\ (p.profitLoss # <<>>) <=> priced
                /\ (p.profitLossPercent # <<>>) <=> priced
                /\ priced => p.currentPrice = <<currentPrices[p.stockCode], 1>>

\* one position with a price and one without
C9_Witness ==
    /\ pc = "positionsDone"
    /\ Len(positions) = 2
    /\ positions[1].stockCode \in DOMAIN currentPrices
    /\ positions[2].stockCode \notin DOMAIN currentPrices
    /\ positions[1].marketValue # <<>>
    /\ positions[2].marketValue = <<>>

KnownMarketValues ==
    RatSum(Len(positions), [i \in 1..Len(positions) |->
        IF positions[i].marketValue = <<>> THEN <<0, 1>> ELSE positions[i].marketValue])

\* C10: totalCost is the sum of the costs of all positions; when at least one
\* market value is known, totalMarketValue is the sum of the known market
\* values and totalProfitLoss = totalMarketValue - totalCost.
C10_TotalsSums ==
    pc = "totalsDone" =>
        /\ totals.totalCost = CostOfAllPositions
        /\ ~NoKnownMarketValue =>
              /\ totals.totalMarketValue = KnownMarketValues
              /\ totals.totalProfitLoss = Sub(KnownMarketValues, CostOfAllPositions)

\* a priced and an unpriced position, the cost of both counted
C10_Witness ==
    /\ pc = "totalsDone"
    /\ Len(positions) = 2
    /\ \E i, j \in 1..2 :
        /\ positions[i].marketValue # <<>>
        /\ positions[j].marketValue = <<>>
        /\ totals.totalMarketValue = positions[i].marketValue
        /\ totals.totalCost = Add(positions[i].totalCost, positions[j].totalCost)
    /\ trades \notin ExampleLedgers

\* the place of trade i of ts in the order of ascending time with the trades
\* of equal time in the order of ts: one more than the trades of earlier time,
\* plus the trades before it of the same time
Rank(ts, i) ==
    Cardinality({j \in 1..Len(ts) : GetTime(ts[j]) < GetTime(ts[i])})
    + Cardinality({j \in 1..i : GetTime(ts[j]) = GetTime(ts[i])})

\* a rearrangement that keeps the order of the trades of equal time
KeepsTies(ts, f) ==
    \A a, b \in 1..Len(ts) :
        (a < b /\ GetTime(ts[f[a]]) = GetTime(ts[f[b]])) => f[a] < f[b]

DistinctTimes(ts) ==
    \A i, j \in 1..Len(ts) : GetTime(ts[i]) = GetTime(ts[j]) => i = j

\* C11: calculatePositions applies the trades in ascending order of time, the
\* trades of equal time in their input order: the order applied is the input
\* rearranged with times ascending and ties in input order, and the positions
\* are those of every rearrangement of the input that keeps the order of the
\* trades of equal time; for pairwise distinct timestamps, of every
\* rearrangement.  (The rearrangements are taken of the ledgers given in the
\* order applied: every ledger is such a rearrangement of that ledger.  The
\* prices enter the positions only when the map built by the loop is emitted,
\* so the rearrangements are compared on that map, under the empty price map.)
C11_TimeOrder ==
    pc = "positionsDone" =>
        /\ Len(sortedTrades) = Len(trades)
        /\ \A i \in 1..Len(trades) : sortedTrades[Rank(trades, i)] = trades[i]
        /\ positionMap = FoldTrades(sortedTrades, Len(sortedTrades))
        /\ positions = EmitPositions(positionMap, currentPrices)
        /\ (trades = sortedTrades /\ DOMAIN currentPrices = {}) =>
              \A f \in Rearrangements[Len(trades)] :
                  (KeepsTies(trades, f) \/ DistinctTimes(trades)) =>
                      FoldTrades(SortByDate(Permuted(trades, f)), Len(trades)) = positionMap

\* a buy and two sells at three different times, given latest first: applied
\* as given, the sells would meet an empty holding
C11_Witness ==
    /\ pc = "positionsDone"
    /\ Len(trades) = 3
    /\ DistinctTimes(trades)
    /\ GetTime(trades[1]) > GetTime(trades[2])
    /\ GetTime(trades[2]) > GetTime(trades[3])
    /\ trades[3].type = "buy"
    /\ trades[1].type = "sell"
    /\ trades[2].type = "sell"
    /\ positions = <<>>
    /\ CalculatePositions(sortedTrades, currentPrices) = positions

\* the trade handled by the last iteration of the analyzeTradeHistory loop, and
\* the inventory of its instrument and the running cost before and after it
AnalysisJustApplied == pc = "analysisLoop" /\ idx > 1
AnalysedTrade == sortedTrades[idx - 1]
InventoryBefore ==
    GetInventory(AnalyzeFold(sortedTrades, idx - 2).inv, AnalysedTrade.stockCode)
CumulativeBefore == AnalyzeFold(sortedTrades, idx - 2).cum
InventoryNow == GetInventory(stockInventory, AnalysedTrade.stockCode)

\* (c / q) * min(quantity, q) for the held quantity q and cost c
CostRemoved(q, c, quantity) ==
    Rat(c[1] * (IF quantity < q THEN quantity ELSE q), c[2] * q)

CommissionPaid(t) == IF t.commission = <<>> THEN 0 ELSE t.commission[1]

\* C12: a sell of an instrument held with quantity q > 0 and cost c gives the
\* profit price*quantity - commission - (c/q)*min(quantity, q) and lowers the
\* cost of the instrument and the running cumulative cost by
\* (c/q)*min(quantity, q); a sell while nothing is held gives profit 0 and
\* removes no cost.
C12_SellRealizes ==
    (AnalysisJustApplied /\ AnalysedTrade.type = "sell") =>
        LET t == AnalysedTrade
            q == InventoryBefore.quantity
            c == InventoryBefore.totalCost
        IN  IF q > 0
            THEN /\ points[idx - 1].profit =
                       Sub(<<t.price * t.quantity - CommissionPaid(t), 1>>,
                           CostRemoved(q, c, t.quantity))
                 /\ InventoryNow.totalCost = Sub(c, CostRemoved(q, c, t.quantity))
                 /\ currentCumulativeCost =
                       Sub(CumulativeBefore, CostRemoved(q, c, t.quantity))
            ELSE /\ points[idx - 1].profit = <<0, 1>>
                 /\ InventoryNow.totalCost = c
                 /\ InventoryNow.quantity = 0
                 /\ currentCumulativeCost = CumulativeBefore

\* a sell with a commission of more than is held, on a holding bought with a
\* commission, has just been handled
C12_Witness ==
    /\ AnalysisJustApplied
    /\ AnalysedTrade.type = "sell"
    /\ AnalysedTrade.commission # <<>>
    /\ InventoryBefore.quantity > 0
    /\ InventoryBefore.quantity < AnalysedTrade.quantity
    /\ InventoryBefore.totalCost[2] = 1
    /\ InventoryBefore.totalCost[1] > InventoryBefore.quantity
    /\ InventoryNow.quantity = 0
    /\ points[idx - 1].profit # <<0, 1>>

\* C13: analyzeTradeHistory returns one point per input trade, the k-th point
\* made from the k-th trade in ascending order of time (ties in input order);
\* the point of a buy has profit 0 and a cumulativeCost of the previous
\* cumulativeCost plus price*quantity + commission.
C13_OnePointPerTrade ==
    pc = "analysisDone" =>
        /\ Len(points) = Len(trades)
        /\ Len(sortedTrades) = Len(trades)
        /\ \A i \in 1..Len(trades) : sortedTrades[Rank(trades, i)] = trades[i]
        /\ \A k \in 1..Len(points) :
              LET t == sortedTrades[k]
                  previous == IF k = 1 THEN <<0, 1>> ELSE points[k - 1].cumulativeCost
              IN  /\ points[k].date = t.date[1]
                  /\ points[k].cost = <<t.price * t.quantity, 1>>
                  /\ t.type = "buy" =>
                        /\ points[k].profit = <<0, 1>>
                        /\ points[k].cumulativeCost =
                              Add(previous, <<t.price * t.quantity + CommissionPaid(t), 1>>)

\* three trades given out of time order, the last in time a buy with a
\* commission that follows a sell and a buy
C13_Witness ==
    /\ pc = "analysisDone"
    /\ Len(points) = 3
    /\ trades # sortedTrades
    /\ sortedTrades[1].type = "buy"
    /\ sortedTrades[2].type = "sell"
    /\ sortedTrades[3].type = "buy"
    /\ sortedTrades[3].commission # <<>>
    /\ Less(points[2].cumulativeCost, points[1].cumulativeCost)
    /\ Less(points[2].cumulativeCost, points[3].cumulativeCost)

\* the days of the points, and the places of the points of a day
PointDays == { points[k].date : k \in 1..Len(points) }
PlacesOfDay(d) == { k \in 1..Len(points) : points[k].date = d }
LastPlaceOfDay(d) == CHOOSE k \in PlacesOfDay(d) : \A j \in PlacesOfDay(d) : j <= k

\* the sum of a field over the points of a day
DayCost(d) ==
    RatSum(Len(points), [k \in 1..Len(points) |->
        IF points[k].date = d THEN points[k].cost ELSE <<0, 1>>])
DayProfit(d) ==
    RatSum(Len(points), [k \in 1..Len(points) |->
        IF points[k].date = d THEN points[k].profit ELSE <<0, 1>>])

\* a projector that aggregates per day itself: the trade of the day of the last
\* element is added to that element, which takes the running cost after it
RECURSIVE ProjectByDay(_, _)
ProjectByDay(sorted, k) ==
    IF k = 0 THEN <<>>
    ELSE LET before == ProjectByDay(sorted, k - 1)
             state == AnalyzeFold(sorted, k)
             p == state.pts[k]
         IN  IF before # <<>> /\ before[Len(before)].date = p.date
             THEN [before EXCEPT ![Len(before)] =
                     [date |-> p.date,
                      cost |-> Add(@.cost, p.cost),
                      profit |-> Add(@.profit, p.profit),
                      cumulativeCost |-> state.cum]]
             ELSE Append(before, p)

\* C14: the collapsed series has one element per day of the points, the days
\* ascending; cost and profit of an element are the sums over the points of
\* its day and its cumulativeCost is that of the last point of the day; and
\* the series is the one of a projector that aggregates per day itself.
C14_DateCollapse ==
    pc = "chartDone" =>
        /\ Len(processedData) = Cardinality(PointDays)
        /\ \A a, b \in 1..Len(processedData) :
              a < b => processedData[a].date < processedData[b].date
        /\ \A a \in 1..Len(processedData) :
              LET e == processedData[a]
              IN  /\ e.date \in PointDays
                  /\ e.cost = DayCost(e.date)
                  /\ e.profit = DayProfit(e.date)
                  /\ e.cumulativeCost = points[LastPlaceOfDay(e.date)].cumulativeCost
        /\ processedData = ProjectByDay(sortedTrades, Len(sortedTrades))

\* three trades given out of time order, two of them of one day with different
\* running costs and a profit, collapsed into two elements
C14_Witness ==
    /\ pc = "chartDone"
    /\ Len(points) = 3
    /\ Len(processedData) = 2
    /\ trades # sortedTrades
    /\ points[1].date = points[2].date
    /\ points[1].cumulativeCost # points[2].cumulativeCost
    /\ processedData[1].profit # <<0, 1>>
    /\ processedData[1].cumulativeCost = points[2].cumulativeCost

\* the arguments of the calls that have been made, as the caller still holds them
InputsKept ==
    /\ trades' = trades
    /\ pc \in {"positionsDone", "totalsDone"} =>
          /\ currentPrices' = currentPrices
          /\ positions' = positions
    /\ pc \in {"analysisDone", "chartDone"} => points' = points

\* C15: no step of calculatePositions, calculateTotalProfitLoss,
\* analyzeTradeHistory or the date collapse changes its input: the trade
\* sequence keeps order and contents, and the price map, the positions handed
\* to calculateTotalProfitLoss and the points handed to the chart stay as they
\* were returned.
C15_InputsUnchanged == [][InputsKept]_vars

\* the chart has collapsed the points of a ledger given out of time order: the
\* ledger is still out of order and the points are still one per trade
C15_Witness ==
    /\ pc = "chartDone"
    /\ trades # sortedTrades
    /\ Len(processedData) < Len(points)
    /\ points = AnalyzeTradeHistory(trades)
    /\ \E k \in 1..Len(points) :
          \E a \in 1..Len(processedData) :
              /\ processedData[a].date = points[k].date
              /\ processedData[a].cost # points[k].cost

\* C16 as stated: after any sequence of ledger writes every trade of the ledger
\* has a non-empty code, a price > 0 and a quantity > 0 (the form and the
\* import having turned away every other trade).
C16_LedgerValid ==
    \A k \in 1..Len(trades) :
        /\ trades[k].stockCode # ""
        /\ trades[k].price > 0
        /\ trades[k].quantity > 0

\* C17 as stated: no two trades of the ledger have the same id.
C17_UniqueIds ==
    \A i, j \in 1..Len(trades) : trades[i].id = trades[j].id => i = j

\* the places of the ledger whose trade has none of the ids, and the r-th of them
PlacesKept(ids) == { k \in 1..Len(trades) : trades[k].id \notin ids }
NthKept(ids, r) ==
    CHOOSE k \in PlacesKept(ids) : Cardinality({ j \in PlacesKept(ids) : j <= k }) = r

\* the step removes the trades of the ids and keeps the others in their order
RemovedExactly(ids) ==
    /\ Len(trades') = Cardinality(PlacesKept(ids))
    /\ \A r \in 1..Len(trades') : trades'[r] = trades[NthKept(ids, r)]

\* the step puts the trade of the form, under the id it had, at the places of
\* the edited id and keeps every other place
ReplacedInPlace(form) ==
    /\ Len(trades') = Len(trades)
    /\ \A k \in 1..Len(trades) :
          IF trades[k].id = editingTrade.id
          THEN /\ trades'[k].id = trades[k].id
               /\ trades'[k].stockCode = ToUpperCase(form.stockCode)
               /\ trades'[k].price = ParseFloat(form.price)
               /\ trades'[k].quantity = ParseInt(form.quantity)
               /\ trades'[k].commission = <<>>
          ELSE trades'[k] = trades[k]

\* C18: deleteTrade(id) and batchDeleteTrades(ids) remove the trades of the
\* given ids and leave the others and their order; updateTrade(id, t), as the
\* form calls it, replaces the trade of that id in place, under the same id,
\* and changes no other trade.  (The steps of the three handlers are among
\* those that leave the effect due; a delete is made with the form closed and
\* does not lengthen the ledger, an edit is made with a trade being edited.)
C18_DeleteAndUpdateFrame ==
    [][ /\ (~isModalOpen /\ effectPending' /\ Len(trades') <= Len(trades)) =>
              /\ \A id \in KnownIds : DeleteOf(id) => RemovedExactly({id})
              /\ \A ids \in SUBSET KnownIds : BatchDeleteOf(ids) => RemovedExactly(ids)
        /\ (editingTrade # Null /\ effectPending') =>
              \A form \in Forms : SubmitForm(form) => ReplacedInPlace(form) ]_vars

\* the trade stored under id 0 has been edited where it stood (only the form
\* gives a price of 0), the trade of id 1 is gone and the trade of id 2 follows
C18_Witness ==
    /\ ~effectPending
    /\ generated = 2
    /\ Len(trades) = 2
    /\ trades[1].id = 0
    /\ trades[1].price = 0
    /\ trades[2].id = 2

\* the effect has run and local storage holds the ledger
StorageInSync == ~effectPending /\ storage # <<>> /\ Load(storage) = trades

\* C19: after every change of the ledger local storage comes to hold the
\* ledger, and a page load after that restores the ledger as it was.
C19_StorageFollows ==
    /\ [](effectPending => <>StorageInSync)
    /\ [][(~effectPending /\ Reload) => trades' = trades]_vars

\* a ledger of three trades, with and without a commission, is in storage
C19_Witness ==
    /\ StorageInSync
    /\ Len(trades) = 3
    /\ generated = 2
    /\ \E i, j \in 1..3 :
          /\ trades[i].commission = <<>>
          /\ trades[j].commission # <<>>
          /\ "commission" \notin DOMAIN storage[1][i]
          /\ storage[1][j].commission = 1

\* the price used for the position of code c, <<>> when there is none
PriceUsed(map, c) ==
    IF c \in DOMAIN CurrentPricesOf(map) THEN <<CurrentPricesOf(map)[c]>> ELSE <<>>

\* the prices a user can set: the provider lists none of them
ManualPrices == {ParseFloat(text) : text \in {t \in EditPrices : ~ParsesToNaN(t)}} \ {0}

\* in this step a call of fetchQuotes completes with a quote stored for c
FetchReturnsQuoteFor(c) ==
    \E call \in inflight : \E text \in Responses(call.codes) :
        /\ ResolveOf(call, text)
        /\ QuoteIndex(FetchedQuotes(call.codes, text), c) # 0

\* C20: a price set with setManualPrice for a code stays the price used for
\* the code until the user sets it again or a fetch returns a quote for the
\* code; a fetch that completes without a quote for the code leaves it.
C20_ManualPriceKept ==
    [][ \A c \in Codes :
          (PriceUsed(quotes, c) # <<>> /\ PriceUsed(quotes, c)[1] \in ManualPrices) =>
              \/ PriceUsed(quotes', c) = PriceUsed(quotes, c)
              \/ \E text \in EditPrices : PriceSaveOf(c, text)
              \/ FetchReturnsQuoteFor(c) ]_vars

\* C21: when calls of fetchQuotes overlap, the response of a call issued
\* earlier never overwrites the quotes stored by a call issued later: a
\* response that arrives after the response of a later call has been stored
\* leaves the quote map as it is.
C21_LaterCallWins ==
    [][ \A call \in inflight :
          ( /\ \E text \in Responses(call.codes) : ResolveOf(call, text)
            /\ \E later \in settled : later.n > call.n /\ later.ok )
          => quotes' = quotes ]_vars

\* the line of the response text that belongs to the requested code
OwnLines(text, code) ==
    {text[k] : k \in {j \in 1..Len(text) : text[j].symbol = GetFullCode(code)}}

\* C22: after fetchQuotes(codes) completes every key of the quote map is one
\* of the requested codes, and the quote under a code was parsed from the
\* response line of that code, whatever lines are blank, missing or
\* unparseable.
C22_QuoteFromOwnLine ==
    [][ \A call \in inflight : \A text \in Responses(call.codes) :
          ResolveOf(call, text) =>
              \A i \in 1..Len(quotes') :
                  /\ \E k \in 1..Len(call.codes) : call.codes[k] = quotes'[i].key
                  /\ \E line \in OwnLines(text, quotes'[i].key) :
                        quotes'[i].quote = ParseQuoteData(line, quotes'[i].key) ]_vars

RECURSIVE InventoryCost(_, _)
InventoryCost(inv, codes) ==
    IF codes = {} THEN <<0, 1>>
    ELSE LET c == CHOOSE x \in codes : TRUE
         IN  Add(inv[c].totalCost, InventoryCost(inv, codes \ {c}))

IdsOf(ts) == { ts[k].id : k \in 1..Len(ts) }

\* C25: importTrades changes and removes no trade of the ledger, appends
\* the imported trades whose id is not in the ledger, in their order, and
\* importing the same batch again leaves the ledger as after the first
\* import.  (Stated of the updater of importTrades on every ledger in which
\* an import can be made, and every file.)
C25_ImportIdempotent ==
    (~isModalOpen /\ ~effectPending) =>
        \A file \in ImportFiles :
            LET once == ImportTrades(trades, file)
            IN  /\ SubSeq(once, 1, Len(trades)) = trades
                /\ SubSeq(once, Len(trades) + 1, Len(once)) =
                      SelectSeq(file, LAMBDA t : t.id \notin IdsOf(trades))
                /\ ImportTrades(once, file) = once

\* a file with two trades of a new id has been imported after the stored trade
C25_Witness ==
    /\ effectPending
    /\ Len(trades) = 3
    /\ trades[1] = LedgerTrade(0, "A", 2, 1, <<1>>)
    /\ trades[2].id = trades[3].id
    /\ trades[2].id # 0
    /\ trades[2].stockCode = ""

\* a line without a price: no data, a price of 0 or a price that is no number
Unpriced(line) ==
    \/ line.parts = <<>>
    \/ ParsesToNaN(line.parts[4])
    \/ ParseFloat(line.parts[4]) = 0

\* C26: no entry of the quote map carries a price of 0 or a non-number: every
\* price in the map is a number > 0 in every state; a completed fetch leaves
\* no entry under the code paired with a line whose price is 0 or
\* unparseable, and a manual edit with a text that is no number > 0 leaves
\* the map as it is.
C26_NoZeroPrice ==
    /\ [](\A i \in 1..Len(quotes) : quotes[i].quote.price > 0)
    /\ [][ /\ \A call \in inflight \ inflight' : \A text \in Responses(call.codes) :
                (quotes' = FetchedQuotes(call.codes, text) /\ ResolveOf(call, text)) =>
                    \A k \in 1..Len(Lines(text)) :
                        (k <= Len(call.codes) /\ Unpriced(Lines(text)[k])) =>
                            QuoteIndex(quotes', call.codes[k]) = 0
           /\ (inflight' = inflight /\ issued' = issued) =>
                \A c \in Codes : \A t \in {x \in EditPrices : ParsesToNaN(x) \/ ParseFloat(x) <= 0} :
                    PriceSaveOf(c, t) => quotes' = quotes ]_vars

\* a fetched quote and, set after it, a manual price are in the map
C26_Witness ==
    /\ Len(quotes) = 2
    /\ quotes[1].quote.price \in {10, 11}
    /\ quotes[2].quote.price = 20
    /\ \E d \in settled : d.ok
    /\ inflight = {}

----------------------------------------------------------------------------
(* The AI panel: AIAssistant, with chatWithAI of the AI service.  A call of
   handleSend is suspended at its await of chatWithAI until the reply arrives
   or the call fails; the user can go on using the panel meanwhile, so several
   calls can be suspended at once and they complete in any order.  The text of
   a message is left out: a message carries the number of the send it belongs
   to.  Titles, updatedAt and the input box are left out as well. *)

notChat == <<trades, engineVars, ledgerVars, quoteVars, searchVars>>

\* activeId null.  `if (activeId)` and `savedActiveId || null` treat null and
\* the empty string alike, and no conversation has the empty id.
NoChat == ""

\* Date.now().toString() at the successive calls of handleNewChat
ChatClock == <<"1", "2">>

\* the sends of a run are numbered in the order of issue
SendNumbers == {1, 2}

\* apiKey of the stored settings: '' is the default
ApiKeys == {"", "k"}

\* { id: newId, title, messages: [], updatedAt }
NewConversation(id) == [id |-> id, messages |-> <<>>]

\* { role: 'user', content: messageText }
UserMessage(n) == [role |-> "user", n |-> n, error |-> FALSE]

\* { role: 'assistant', content: result.content, reasoning_content }
AssistantMessage(n) == [role |-> "assistant", n |-> n, error |-> FALSE]

\* { role: 'assistant', content: `错误: ${error.message || '调用 API 失败'}` }
ErrorMessage(n) == [role |-> "assistant", n |-> n, error |-> TRUE]

ChatIdsOf(convs) == {convs[k].id : k \in 1..Len(convs)}

\* conversations.find(c => c.id === activeId) || null, as the index or 0
ActiveConversation ==
    IF activeId \in ChatIdsOf(conversations)
    THEN CHOOSE k \in 1..Len(conversations) :
             /\ conversations[k].id = activeId
             /\ \A j \in 1..(k - 1) : conversations[j].id # activeId
    ELSE 0

\* activeConversation?.messages || []
Messages ==
    IF ActiveConversation = 0 THEN <<>> ELSE conversations[ActiveConversation].messages

\* prev.map(c => c.id === currentId ? { ...c, messages: [...c.messages, msg] } : c)
AppendTo(convs, id, msg) ==
    [k \in 1..Len(convs) |->
        IF convs[k].id = id
        THEN [convs[k] EXCEPT !.messages = Append(@, msg)]
        ELSE convs[k]]

\* JSON.stringify(conversations): the text, held as a one-element tuple
StringifyChats(convs) == <<convs>>

\* saved ? JSON.parse(saved) : []
LoadChats(saved) == IF saved = Null THEN <<>> ELSE saved[1]

\* the panel is mounted over an empty storage; a key may have been configured
ChatInit ==
    /\ trades = <<>>
    /\ EngineAtRest
    /\ LedgerAtRest
    /\ QuotesAtRest
    /\ SearchAtRest
    /\ conversations = LoadChats(Null)
    /\ activeId = NoChat
    /\ isTyping = FALSE
    /\ sends = {}
    /\ sent = 0
    /\ chatsMade = 0
    /\ chatStorage = [conversations |-> Null, activeId |-> NoChat]
    /\ chatEffectPending = TRUE
    /\ apiKey \in ApiKeys

\* useEffect(() => { setItem('ai_conversations', ...); if (activeId) setItem(
\* 'ai_active_conversation_id', activeId) }, [conversations, activeId]).
\* React runs the effect of a render before it handles a later event, so the
\* handlers below wait for it.
ChatPersistEffect ==
    /\ chatEffectPending
    /\ chatStorage' = [conversations |-> StringifyChats(conversations),
                       activeId |-> IF activeId # NoChat THEN activeId
                                    ELSE chatStorage.activeId]
    /\ chatEffectPending' = FALSE
    /\ UNCHANGED <<conversations, activeId, isTyping, sends, sent, chatsMade, apiKey>>
    /\ UNCHANGED notChat

\* handleNewChat, from the new-chat button
HandleNewChat ==
    /\ ~chatEffectPending
    /\ chatsMade < Len(ChatClock)
    /\ conversations' = <<NewConversation(ChatClock[chatsMade + 1])>> \o conversations
    /\ activeId' = ChatClock[chatsMade + 1]
    /\ chatsMade' = chatsMade + 1
    /\ chatEffectPending' = TRUE
    /\ UNCHANGED <<isTyping, sends, sent, chatStorage, apiKey>>
    /\ UNCHANGED notChat

\* handleSwitchChat(id), from an item of the conversation list
SwitchTo(id) ==
    /\ ~chatEffectPending
    /\ id # activeId
    /\ activeId' = id
    /\ chatEffectPending' = TRUE
    /\ UNCHANGED <<conversations, isTyping, sends, sent, chatsMade, chatStorage, apiKey>>
    /\ UNCHANGED notChat

HandleSwitchChat == \E id \in ChatIdsOf(conversations) : SwitchTo(id)

\* conversations.filter(c => c.id !== id)
WithoutChat(convs, id) == SelectSeq(convs, LAMBDA c : c.id # id)

\* handleDeleteChat(id, e), the confirm dialog accepted
DeleteChatOf(id) ==
    /\ ~chatEffectPending
    /\ conversations' = WithoutChat(conversations, id)
    /\ activeId' = IF activeId = id
                   THEN IF Len(WithoutChat(conversations, id)) > 0
                        THEN WithoutChat(conversations, id)[1].id
                        ELSE NoChat
                   ELSE activeId
    /\ chatEffectPending' = TRUE
    /\ UNCHANGED <<isTyping, sends, sent, chatsMade, chatStorage, apiKey>>
    /\ UNCHANGED notChat

HandleDeleteChat == \E id \in ChatIdsOf(conversations) : DeleteChatOf(id)

\* handleSend(text, targetConversationId) with a text that is not blank, up to
\* its await.  fresh: a conversation is made for the message (handleNewChat).
\* chatWithAI throws before any fetch when no key is configured: the catch and
\* the finally block then run before any other event is handled.
SendOf(fresh, target) ==
    LET n == sent + 1
        currentId == IF fresh THEN ChatClock[chatsMade + 1] ELSE target
        opened == IF fresh THEN <<NewConversation(currentId)>> \o conversations
                  ELSE conversations
        asked == AppendTo(opened, currentId, UserMessage(n))
    IN  /\ ~chatEffectPending
        /\ n \in SendNumbers
        /\ fresh => chatsMade < Len(ChatClock)
        /\ IF apiKey = ""
           THEN /\ conversations' = AppendTo(asked, currentId, ErrorMessage(n))
                /\ isTyping' = FALSE
                /\ sends' = sends
           ELSE /\ conversations' = asked
                /\ isTyping' = TRUE
                /\ sends' = sends \cup {[n |-> n, conv |-> currentId]}
        /\ activeId' = IF fresh THEN currentId ELSE activeId
        /\ chatsMade' = IF fresh THEN chatsMade + 1 ELSE chatsMade
        /\ sent' = n
        /\ chatEffectPending' = TRUE
        /\ UNCHANGED <<chatStorage, apiKey>>
        /\ UNCHANGED notChat

\* handleSend() from the input box (Enter in the textarea, the send button) and
\* handleSend(getPortfolioSummary()) from the analyse button: all need an
\* activeId, and the textarea asks for nothing else
SendInput ==
    /\ activeId # NoChat
    /\ SendOf(FALSE, activeId)

\* handleSend("...") from a suggested question, shown while no conversation is
\* active or the active one has no messages
SendSuggested ==
    /\ activeId = NoChat \/ Messages = <<>>
    /\ SendOf(activeId = NoChat, activeId)

\* the effect on [pendingAnalysis]: a conversation is made unless one is shown
SendPendingAnalysis ==
    /\ ~chatEffectPending
    /\ SendOf(activeId = NoChat \/ ActiveConversation = 0, activeId)

\* chatWithAI returned: the code after the await, and the finally block
ReplyOf(send) ==
    /\ ~chatEffectPending
    /\ conversations' = AppendTo(conversations, send.conv, AssistantMessage(send.n))
    /\ isTyping' = FALSE
    /\ sends' = sends \ {send}
    /\ chatEffectPending' = TRUE
    /\ UNCHANGED <<activeId, sent, chatsMade, chatStorage, apiKey>>
    /\ UNCHANGED notChat

Reply == \E send \in sends : ReplyOf(send)

\* chatWithAI threw (the fetch failed, or the status was not OK): the catch
\* block, and the finally block
FailOf(send) ==
    /\ ~chatEffectPending
    /\ conversations' = AppendTo(conversations, send.conv, ErrorMessage(send.n))
    /\ isTyping' = FALSE
    /\ sends' = sends \ {send}
    /\ chatEffectPending' = TRUE
    /\ UNCHANGED <<activeId, sent, chatsMade, chatStorage, apiKey>>
    /\ UNCHANGED notChat

Fail == \E send \in sends : FailOf(send)

\* the page is loaded again: the useState initialisers read the storage, the
\* suspended calls are gone with the old page
ChatReload ==
    /\ ~chatEffectPending
    /\ conversations' = LoadChats(chatStorage.conversations)
    /\ activeId' = chatStorage.activeId
    /\ isTyping' = FALSE
    /\ sends' = {}
    /\ chatEffectPending' = TRUE
    /\ UNCHANGED <<sent, chatsMade, chatStorage, apiKey>>
    /\ UNCHANGED notChat

\* AISettingsModal.handleSave: saveAISettings(settings)
SaveAISettings ==
    /\ \E key \in ApiKeys \ {apiKey} : apiKey' = key
    /\ UNCHANGED <<conversations, activeId, isTyping, sends, sent, chatsMade,
                   chatStorage, chatEffectPending>>
    /\ UNCHANGED notChat

ChatNext ==
    \/ ChatPersistEffect
    \/ HandleNewChat
    \/ HandleSwitchChat
    \/ HandleDeleteChat
    \/ SendInput
    \/ SendSuggested
    \/ SendPendingAnalysis
    \/ Reply
    \/ Fail
    \/ ChatReload
    \/ SaveAISettings

ChatSpec == ChatInit /\ [][ChatNext]_vars

----------------------------------------------------------------------------
(* Properties of the AI panel, claims C27 to C29 *)

\* C29: after any sequence of new chat, switch chat, delete chat and page
\* reload, the active conversation id is null or the id of a conversation of
\* the conversation list.
C29_ActiveIdListed ==
    activeId = NoChat \/ activeId \in ChatIdsOf(conversations)

\* the messages of the conversation with the given id
MessagesOf(convs, id) ==
    LET k == CHOOSE j \in 1..Len(convs) : convs[j].id = id
    IN  convs[k].messages

\* every conversation of the list but the given one keeps its messages
OthersKept(id) ==
    \A other \in ChatIdsOf(conversations) \ {id} :
        /\ other \in ChatIdsOf(conversations')
        /\ MessagesOf(conversations', other) = MessagesOf(conversations, other)

\* the user message of send n is in the conversation, followed by nothing or
\* by what the given messages allow
AskedIn(convs, id, n) ==
    /\ id \in ChatIdsOf(convs)
    /\ \E i \in 1..Len(MessagesOf(convs, id)) : MessagesOf(convs, id)[i] = UserMessage(n)

\* C27: the assistant message produced by a send (reply or error text) is
\* appended to the conversation the user message was sent in, after that user
\* message, even when the user switched the active conversation or started a
\* new one while the call was in flight; the messages of every other
\* conversation are unchanged.
C27_ReplyInItsConversation ==
    [][ /\ sent' # sent =>
              \E id \in ChatIdsOf(conversations') :
                  /\ AskedIn(conversations', id, sent')
                  /\ OthersKept(id)
                  /\ sends' # sends => [n |-> sent', conv |-> id] \in sends'
        /\ \A send \in sends :
              \* a conversation deleted meanwhile has nothing to append to
              ((ReplyOf(send) \/ FailOf(send)) /\ send.conv \in ChatIdsOf(conversations)) =>
                  /\ AskedIn(conversations, send.conv, send.n)
                  /\ LET before == MessagesOf(conversations, send.conv)
                         after == MessagesOf(conversations', send.conv)
                     IN  /\ Len(after) = Len(before) + 1
                         /\ SubSeq(after, 1, Len(before)) = before
                         /\ after[Len(after)].role = "assistant"
                         /\ after[Len(after)].n = send.n
                  /\ OthersKept(send.conv) ]_vars

\* the conversation ends with the user message of send n and its error message
EndsWithError(convs, id, n) ==
    LET m == MessagesOf(convs, id)
    IN  /\ Len(m) >= 2
        /\ m[Len(m) - 1] = UserMessage(n)
        /\ m[Len(m)] = ErrorMessage(n)

\* C28: when the chat API call of a send fails (no API key configured, network
\* error or non-OK HTTP status), the user message stays in the conversation,
\* exactly one assistant message carrying the error text is appended after it,
\* and isTyping returns to false; with an empty API key no HTTP request is
\* issued.
C28_FailureReported ==
    [][ /\ (sent' # sent /\ apiKey = "") =>
              /\ sends' = sends
              /\ isTyping' = FALSE
              /\ \E id \in ChatIdsOf(conversations') :
                    /\ EndsWithError(conversations', id, sent')
                    /\ OthersKept(id)
        /\ \A send \in sends :
              \* a conversation deleted meanwhile has nothing to append to
              (FailOf(send) /\ send.conv \in ChatIdsOf(conversations)) =>
                  /\ isTyping' = FALSE
                  /\ AskedIn(conversations', send.conv, send.n)
                  /\ MessagesOf(conversations', send.conv) =
                        Append(MessagesOf(conversations, send.conv), ErrorMessage(send.n))
                  /\ OthersKept(send.conv) ]_vars

----------------------------------------------------------------------------
(* The stock search box: StockSearch inside TradeForm.  A call of searchStocks
   is suspended at its awaits (fetch, arrayBuffer) until the response arrives
   or the request fails.  An aborted request can only reject with AbortError,
   at either await; what follows the second await runs without interruption. *)

notSearch == <<trades, engineVars, ledgerVars, quoteVars, chatVars>>

\* what the user types, and the code a chosen stock gives
SearchQueries == {"", "6", "60", "sh600"}

\* the requests of a run are numbered in the order of issue
SearchNumbers == {1, 2, 3}

\* stocks.slice(0, 10)
MaxResults == 10

\* searchQuery.toUpperCase().replace(/^(SH|SZ|BJ)/, '')
CleanQuery(q) == IF q = "sh600" THEN "600" ELSE q

\* unescapeUnicode
UnescapeUnicode(str) == IF str = "\\u0041" THEN "A" ELSE str

\* response texts: the items between the quotes of v_hint="...", each split at
\* '~'; <<>> is a text without a quoted part
HintTexts ==
    { <<>>,
      << <<"N">> >>,
      << <<"sh", "600", "\\u0041">>, <<"sz", "000">> >>,
      [k \in 1..(MaxResults + 1) |-> <<"sh", "600", "n">>] }

\* the list searchStocks makes of a response text
ParseHints(text) ==
    LET kept == SelectSeq(text, LAMBDA parts : Len(parts) >= 3)
        stocks == [k \in 1..Len(kept) |->
                      [market |-> kept[k][1], code |-> kept[k][2],
                       name |-> UnescapeUnicode(kept[k][3])]]
    IN  SubSeq(stocks, 1, IF Len(stocks) < MaxResults THEN Len(stocks) ELSE MaxResults)

\* mutant: abort does nothing
AbortedIgnored(reqs) == reqs

\* abortControllerRef.current.abort(): the request of the controller, if it is
\* still in flight, will reject with AbortError
Aborted(reqs) ==
    {IF r.n = controller THEN [r EXCEPT !.aborted = TRUE] ELSE r : r \in reqs}

\* the dropdown shows the result list
ListShown ==
    /\ showDropdown
    /\ query # "" \/ searchLoading
    /\ ~searchLoading
    /\ results # <<>>

\* TradeForm shows the form: query starts as the code the form holds, and the
\* effect has set its first timer
SearchInit ==
    /\ trades = <<>>
    /\ EngineAtRest
    /\ LedgerAtRest
    /\ QuotesAtRest
    /\ ChatAtRest
    /\ value \in {"", "sh600"}
    /\ query = value
    /\ results = <<>>
    /\ resultsFrom = 0
    /\ searchLoading = FALSE
    /\ showDropdown = FALSE
    /\ timer = TRUE
    /\ requests = {}
    /\ controller = 0
    /\ searched = 0

\* the input's onChange, with the effect on [query, searchStocks, value]: its
\* cleanup clears the timer and aborts, then a new timer is set
TypeOf(q) ==
    /\ q # query
    /\ query' = q
    /\ showDropdown' = TRUE
    /\ requests' = Aborted(requests)
    /\ timer' = TRUE
    /\ UNCHANGED <<value, results, resultsFrom, searchLoading, controller, searched>>
    /\ UNCHANGED notSearch

HandleType == \E q \in SearchQueries : TypeOf(q)

\* the input's onFocus
HandleFocus ==
    /\ ~showDropdown
    /\ showDropdown' = TRUE
    /\ UNCHANGED <<query, value, results, resultsFrom, searchLoading, timer,
                   requests, controller, searched>>
    /\ UNCHANGED notSearch

\* handleClickOutside
HandleClickOutside ==
    /\ showDropdown
    /\ showDropdown' = FALSE
    /\ UNCHANGED <<query, value, results, resultsFrom, searchLoading, timer,
                   requests, controller, searched>>
    /\ UNCHANGED notSearch

\* the timer of the effect fires: searchStocks(query) up to its first await,
\* if there is a query and it is not the code the form holds
TimerFires ==
    /\ timer
    /\ timer' = FALSE
    /\ IF query # "" /\ query # value
       THEN /\ searched + 1 \in SearchNumbers
            /\ requests' = Aborted(requests) \cup
                   {[n |-> searched + 1, q |-> CleanQuery(query), aborted |-> FALSE]}
            /\ controller' = searched + 1
            /\ searched' = searched + 1
            /\ searchLoading' = TRUE
       ELSE UNCHANGED <<requests, controller, searched, searchLoading>>
    /\ UNCHANGED <<query, value, results, resultsFrom, showDropdown>>
    /\ UNCHANGED notSearch

\* the response arrived with status OK and its body was read
RespondOf(req, text) ==
    /\ ~req.aborted
    /\ results' = ParseHints(text)
    /\ resultsFrom' = req.n
    /\ searchLoading' = FALSE
    /\ requests' = requests \ {req}
    /\ UNCHANGED <<query, value, showDropdown, timer, controller, searched>>
    /\ UNCHANGED notSearch

Respond == \E req \in requests : \E text \in HintTexts : RespondOf(req, text)

\* the fetch failed or the status was not OK: the catch block clears the list
SearchFailOf(req) ==
    /\ ~req.aborted
    /\ results' = <<>>
    /\ resultsFrom' = req.n
    /\ searchLoading' = FALSE
    /\ requests' = requests \ {req}
    /\ UNCHANGED <<query, value, showDropdown, timer, controller, searched>>
    /\ UNCHANGED notSearch

SearchFail == \E req \in requests : SearchFailOf(req)

\* an aborted request rejects with AbortError: only the finally block acts
AbortErrorOf(req) ==
    /\ req.aborted
    /\ searchLoading' = FALSE
    /\ requests' = requests \ {req}
    /\ UNCHANGED <<query, value, results, resultsFrom, showDropdown, timer,
                   controller, searched>>
    /\ UNCHANGED notSearch

AbortError == \E req \in requests : AbortErrorOf(req)

\* handleSelect(stock), from an item of the list shown; TradeForm's onChange
\* stores the code, and the effect runs again
SelectOf(stock) ==
    /\ query' = stock.market \o stock.code
    /\ value' = stock.market \o stock.code
    /\ showDropdown' = FALSE
    /\ results' = <<>>
    /\ resultsFrom' = 0
    /\ requests' = Aborted(requests)
    /\ timer' = TRUE
    /\ UNCHANGED <<searchLoading, controller, searched>>
    /\ UNCHANGED notSearch

HandleSelect ==
    /\ ListShown
    /\ \E k \in 1..Len(results) : SelectOf(results[k])

\* the clear button, shown while there is a query
HandleClear ==
    /\ query # ""
    /\ query' = ""
    /\ value' = ""
    /\ results' = <<>>
    /\ resultsFrom' = 0
    /\ requests' = Aborted(requests)
    /\ timer' = TRUE
    /\ UNCHANGED <<searchLoading, showDropdown, controller, searched>>
    /\ UNCHANGED notSearch

SearchNext ==
    \/ HandleType
    \/ HandleFocus
    \/ HandleClickOutside
    \/ TimerFires
    \/ Respond
    \/ SearchFail
    \/ AbortError
    \/ HandleSelect
    \/ HandleClear

SearchSpec == SearchInit /\ [][SearchNext]_vars

----------------------------------------------------------------------------
(* Properties of the stock search box, claim C30 *)

\* a changed query or a new request leaves no earlier request unaborted
NewSearchAborts ==
    (searched' # searched \/ query' # query) =>
        \A r \in requests :
            [n |-> r.n, q |-> r.q, aborted |-> TRUE] \in requests'

\* a request that was aborted or is not the latest one leaves the results alone
SupersededSilent ==
    \A r \in requests \ requests' :
        (r.aborted \/ r.n # searched) =>
            /\ results' = results
            /\ resultsFrom' = resultsFrom

\* C30 (as stated): the result list shown always belongs to the most recently
\* issued search request; issuing a new search or changing the query aborts
\* the request in flight, and the response or failure of a superseded request
\* never replaces or clears the results of a newer request.
C30_ListOfLatestRequest ==
    /\ [](ListShown => resultsFrom = searched)
    /\ [][NewSearchAborts /\ SupersededSilent]_vars

\* C30 (amended): the result list is empty or was set by the response of a
\* request that was, when the response arrived, the most recently issued one,
\* not aborted and made for the query of that moment; the list stays until the
\* next response, failure, selection or clearing, also while later requests
\* are aborted.  Issuing a new search or changing the query aborts the request
\* in flight, at most one request in flight is not aborted, and the response
\* or failure of a superseded request never changes the results.
C30_SupersededNeverShown ==
    /\ [](/\ \A r \in requests : ~r.aborted => (r.n = searched /\ r.n = controller)
          /\ results # <<>> => resultsFrom \in 1..searched)
    /\ [][ /\ NewSearchAborts
           /\ SupersededSilent
           /\ (results' # results \/ resultsFrom' # resultsFrom) =>
                 \/ results' = <<>> /\ resultsFrom' = 0
                 \/ \E r \in requests \ requests' :
                       /\ ~r.aborted
                       /\ r.n = searched
                       /\ r.q = CleanQuery(query)
                       /\ resultsFrom' = r.n
                       /\ \/ results' = <<>>
                          \/ \E text \in HintTexts : results' = ParseHints(text) ]_vars

\* the list of request 2 is shown, cut to its length, while request 1, aborted,
\* has not yet rejected, and after a third request was issued and aborted
C30_Witness ==
    /\ ListShown
    /\ resultsFrom = 2
    /\ Len(results) = MaxResults
    /\ searched = 3
    /\ \E r \in requests : r.n = 1 /\ r.aborted
    /\ \A r \in requests : r.n # 3

====
